---- MODULE Spec2Model ----
(***************************************************************************)
(* A model of the survey conversion and diagnostic scripts of              *)
(* 03-3H51U4: the DXF / IFC / control-point converters and the analysis    *)
(* scripts that compare a control point with a retaining-wall station.     *)
(*                                                                         *)
(* Numbers.  The scripts compute with Python floats.  Here every length    *)
(* that is a station or a distance along an alignment is an integer count  *)
(* of thousandths of a foot (one digit more than the two decimals the      *)
(* scripts print, so that rounding in the "05.2f" format is visible), and  *)
(* every coordinate is an integer count of its system's native unit.       *)
(* Python's None is the empty tuple and a present value v is <<v>>.        *)
(***************************************************************************)
EXTENDS Integers, Sequences, FiniteSets, TLC

VARIABLES
    pc,                     \* position of the running script
    stdout,                 \* what the script has printed, one tag per line
    \* convert_dxf_to_kml.py
    points,                 \* list of (x, y, z, layer)
    start_station,          \* None or <<thousandths of a foot>>
    end_station,            \* None or <<thousandths of a foot>>
    cumulative_distances,   \* None until line 164 binds it
    total_distance,         \* None until line 165 binds it
    i,                      \* number of points the loop of line 209 has handled
    placemarks,             \* the Placemark elements appended to kml_parts
    kml_file,               \* None, or <<placemarks>> once line 293 has written
    \* format_station (convert_dxf_to_kml.py)
    station_feet,           \* the argument, thousandths of a foot
    hundreds,               \* None until line 77 binds it
    feet,                   \* None until line 78 binds it
    station_str,            \* None until line 79 returns
    \* test_coordinate_fixes.py, TEST 2
    test_points,            \* list of (x, y, z, layer)
    test_start_station,     \* start_station of the test
    test_end_station,       \* end_station / wrong_end_station of the test
    test_cumulative,        \* None until line 104 binds cumulative_distances
    station_ft_old,         \* the stations of the OLD formula, in point order
    station_ft_new,         \* the stations of the NEW formula, in point order
    \* transform_point of the DXF and of the IFC converter
    xyz_points,             \* the (x, y, z) points handed to transform_point
    dxf_transformed,        \* what convert_dxf_to_kml.transform_point returned
    ifc_transformed,        \* what convert_ifc_to_kml.transform_point returned
    \* final_analysis.py
    cm_ft,                  \* (cm_east_ft, cm_north_ft): CM 10.99, EPSG:2871, feet
    rw,                     \* (rw_x, rw_y): the IFC Start Point, EPSG:2767, metres
    cm_m,                   \* None until line 45 binds (cm_x_m, cm_y_m)
    dist_ft_h1,             \* None until line 57 binds it
    distances_computed,     \* every distance computed so far: the hypothesis, the
                            \* system each operand is declared in, and the value
    \* zone_investigation.py
    ca_zones,               \* the candidate codes, in the order of the dict
    returned,               \* what test_transformation returned for each code so far
    results,                \* the list of line 79
    utm_returned,           \* the same for the three codes of utm_zones
    trans_wgs,              \* None until the loop of line 149 has filled the dict
    \* convert_ifc_to_kml.py, main
    argv,                   \* sys.argv[1:], files by number
    data_dir_exists,        \* os.path.exists('DATA')
    data_dir_listing,       \* os.listdir('DATA'), in the order the system gives
    ifc_files,              \* None until line 461 or 468 binds it
    files_done,             \* how many of sorted(ifc_files) the loop has handled
    kml_files,              \* the list of line 480
    written,                \* the files whose KML document has been written
    exit_status,            \* None while running, then the process's exit status
    \* convert_control_points_to_kml.py, read_control_points
    csv_lines,              \* the rows csv.reader yields, the header row first
    rows_read,              \* how many of them the reader has yielded
    control_points,         \* the list of line 27
    \* convert_ifc_to_kml.py, extract_geometry_from_ifc
    property_sets,          \* ifc.by_type("IfcPropertySet")
    psets_done,             \* how many the loop of line 89 has handled
    ifc_points,             \* the list `points` of line 59
    products_examined,      \* whether the loop over IfcProduct (line 142) was entered
    geometry_data,          \* None, or <<the dictionary returned>>
    \* convert_xml_to_kml.py, main
    xml_dir_exists,         \* os.path.exists('DATA')
    xml_dir_listing,        \* os.listdir('DATA'), files by number
    xml_files,              \* None until line 292 binds it
    xml_files_done,         \* how many of sorted(xml_files) the loop has handled
    xml_kml_files,          \* the list of line 302
    xml_written,            \* the files whose KML document has been written
    xml_exit_status,        \* None while running, then the process's exit status
    \* convert_dxf_to_kml.py, __main__
    dxf_argv,               \* sys.argv[1:], files by number
    dxf_glob,               \* glob.glob(".../DATA/*.dxf"), in the order the system gives
    dxf_files_done,         \* how many files the running loop has handled
    dxf_written,            \* the files whose KML document has been written
    dxf_exit_status,        \* None while running, then the process's exit status
    \* convert_control_points_to_kml.py, main
    csv_argv,               \* sys.argv[1:], files by number
    csv_existing,           \* the entries of possible_locations that exist
    csv_file,               \* None until line 180, <<csv_file>> afterwards
    csv_written,            \* the files whose KML document has been written
    csv_exit_status,        \* None while running, then the process's exit status
    \* convert_xml_to_kml.py, parse_landxml_alignment
    coord_geom,             \* the Line and Curve children of CoordGeom, in document order
    lines_done,             \* how many Line elements the loop of line 91 has handled
    curves_done,            \* how many Curve elements the loop of line 110 has handled
    coord_points,           \* the list of line 86
    unique_points,          \* None until line 169 returns, then <<points>>
    \* convert_xml_to_kml.py, interpolate_arc
    arc_args,               \* the arguments of the call
    start_angle,            \* None until line 35 binds it (degrees)
    delta_rad,              \* None until line 38 binds it (degrees, signed after line 42)
    arc_i,                  \* the loop variable of line 46
    arc_points,             \* the list of line 45
    \* test_ifc_offset.py and analyze_coordinate_problem.py, the distance helpers
    point1,                 \* the first point, a record of easting, northing, elevation
    point2,                 \* the second point
    distance_3d,            \* None, then calculate_distance of the pair, of the swapped pair, of point1 twice
    distance_horizontal,    \* the same of calculate_horizontal_distance, and of the pair at elevation 0
    distance_2d,            \* the same of calculate_distance_2d
    \* the unit conversions of the analysis scripts
    length_ft,              \* a length in US survey feet, a fraction <<numerator, denominator>>
    length_m,               \* None, then feet_to_meters(length_ft)
    length_back,            \* None, then meters_to_feet(length_m)
    distance_ft,            \* None, then length_m as verify_kml_distance.py line 29 converts it
    distance_us_ft,         \* None, then length_m as verify_kml_distance.py line 30 converts it
    direct_ft,              \* None, then length_ft times the ratio of ifc_scale_investigation.py line 207
    conversions,            \* the conversions made so far: script, line, the unit named, metres per foot used
    point_ft,               \* a point of EPSG:2871
    point_m,                \* None, then the point in EPSG:2767
    point_back,             \* None, then that point back in EPSG:2871
    \* verify_kml_distance.py lines 105-129 and visualize_distances.py lines 14-23
    cm_point_ft,            \* the control point, EPSG:2871, hundredths of a US survey foot
    rw_point_m,             \* the Start Point of the wall station, EPSG:2767, hundredths of a metre
    rw_point_ft,            \* None, then the Start Point in EPSG:2871
    current_dist,           \* None, then the distance in EPSG:2871, hundredths of a foot
    cm_point_m,             \* None, then the control point in EPSG:2767
    distance_m,             \* None, then the distance in EPSG:2767, hundredths of a metre
    distance_m_ft,          \* None, then distance_m in feet, hundredths
    \* convert_ifc_to_kml.py, the products of extract_geometry_from_ifc and create_kml_from_geometry
    ifc_products,           \* ifc.by_type("IfcProduct")
    products_done,          \* how many products the loop of line 144 has handled
    ifc_lines,              \* the list lines of extract_geometry_from_ifc
    ifc_polygons,           \* the list polygons of extract_geometry_from_ifc
    ifc_placemarks,         \* the Placemarks added to kml_content so far
    ifc_kml_file,           \* None until line 421 writes the file, then <<placemarks>>
    \* convert_control_points_to_kml.py, convert_control_points_to_kml and create_kml
    csv_placemarks,         \* the Placemarks added to kml_content so far
    csv_kml_file,           \* the output file: None while it does not exist, else <<placemarks>>
    csv_returned,           \* None until convert_control_points_to_kml returns, then <<value>>
    \* convert_xml_to_kml.py, transform_coordinates and create_kml
    transformed_points,     \* None until line 273 binds it
    xml_kml_file,           \* None until line 245 writes the file, then <<the LineString>>
    \* convert_dxf_to_kml.py, the polylines of create_kml
    polylines,              \* what extract_polylines_from_dxf returned
    polyline_placemarks     \* the Placemarks of the Polylines folder

vDxf == <<points, start_station, end_station, cumulative_distances,
          total_distance, i, placemarks, kml_file>>
vFormat == <<station_feet, hundreds, feet, station_str>>
vTest == <<test_points, test_start_station, test_end_station, test_cumulative,
           station_ft_old, station_ft_new>>
vTransform == <<xyz_points, dxf_transformed, ifc_transformed>>
vFinal == <<cm_ft, rw, cm_m, dist_ft_h1, distances_computed>>
vZone == <<ca_zones, returned, results, utm_returned, trans_wgs>>
vIfcMain == <<argv, data_dir_exists, data_dir_listing, ifc_files, files_done,
              kml_files, written, exit_status>>
vCsv == <<csv_lines, rows_read, control_points>>
vExtract == <<property_sets, psets_done, ifc_points, products_examined, geometry_data>>
vXmlMain == <<xml_dir_exists, xml_dir_listing, xml_files, xml_files_done, xml_kml_files,
              xml_written, xml_exit_status>>
vDxfMain == <<dxf_argv, dxf_glob, dxf_files_done, dxf_written, dxf_exit_status>>
vCsvMain == <<csv_argv, csv_existing, csv_file, csv_written, csv_exit_status>>
vLandXml == <<coord_geom, lines_done, curves_done, coord_points, unique_points>>
vArc == <<arc_args, start_angle, delta_rad, arc_i, arc_points>>
vDist == <<point1, point2, distance_3d, distance_horizontal, distance_2d>>
vUnits == <<length_ft, length_m, length_back, distance_ft, distance_us_ft,
    direct_ft, conversions, point_ft, point_m, point_back>>
vKmlDist == <<cm_point_ft, rw_point_m, rw_point_ft, current_dist, cm_point_m,
    distance_m, distance_m_ft>>
vIfcKml == <<ifc_products, products_done, ifc_lines, ifc_polygons, ifc_placemarks,
    ifc_kml_file>>
vCsvKml == <<csv_placemarks, csv_kml_file, csv_returned>>
vXmlKml == <<transformed_points, xml_kml_file>>
vDxfLines == <<polylines, polyline_placemarks>>
vars == <<pc, stdout, vDxf, vFormat, vTest, vTransform, vFinal, vZone, vIfcMain, vCsv,
          vExtract, vXmlMain, vDxfMain, vCsvMain, vLandXml, vArc, vDist,
          vUnits, vKmlDist, vIfcKml, vCsvKml, vXmlKml, vDxfLines>>

\* What the actions of one script leave alone: the state of the others.
vNotDxf == <<vFormat, vTest, vTransform, vFinal, vZone, vIfcMain, vCsv, vExtract,
    vXmlMain, vDxfMain, vCsvMain, vLandXml, vArc, vDist, vUnits,
    vKmlDist, vIfcKml, vCsvKml, vXmlKml, vDxfLines>>
vNotDxfConversion ==
    <<vFormat, vTest, vTransform, vFinal, vZone, vIfcMain, vCsv, vExtract,
      vXmlMain, vDxfMain, vCsvMain, vLandXml, vArc, vDist, vUnits,
      vKmlDist, vIfcKml, vCsvKml, vXmlKml>>
vNotFormat == <<vDxf, vTest, vTransform, vFinal, vZone, vIfcMain, vCsv, vExtract,
    vXmlMain, vDxfMain, vCsvMain, vLandXml, vArc, vDist, vUnits,
    vKmlDist, vIfcKml, vCsvKml, vXmlKml, vDxfLines>>
vNotTest == <<vDxf, vFormat, vTransform, vFinal, vZone, vIfcMain, vCsv, vExtract,
    vXmlMain, vDxfMain, vCsvMain, vLandXml, vArc, vDist, vUnits,
    vKmlDist, vIfcKml, vCsvKml, vXmlKml, vDxfLines>>
vNotTransform == <<vDxf, vFormat, vTest, vFinal, vZone, vIfcMain, vCsv, vExtract,
    vXmlMain, vDxfMain, vCsvMain, vLandXml, vArc, vDist, vUnits,
    vKmlDist, vIfcKml, vCsvKml, vXmlKml, vDxfLines>>
vNotFinal == <<vDxf, vFormat, vTest, vTransform, vZone, vIfcMain, vCsv, vExtract,
    vXmlMain, vDxfMain, vCsvMain, vLandXml, vArc, vDist, vUnits,
    vKmlDist, vIfcKml, vCsvKml, vXmlKml, vDxfLines>>
vNotZone == <<vDxf, vFormat, vTest, vTransform, vFinal, vIfcMain, vCsv, vExtract,
    vXmlMain, vDxfMain, vCsvMain, vLandXml, vArc, vDist, vUnits,
    vKmlDist, vIfcKml, vCsvKml, vXmlKml, vDxfLines>>
vNotCsv == <<vDxf, vFormat, vTest, vTransform, vFinal, vZone, vIfcMain, vExtract,
    vXmlMain, vDxfMain, vCsvMain, vLandXml, vArc, vDist, vUnits,
    vKmlDist, vIfcKml, vCsvKml, vXmlKml, vDxfLines>>
vNotCsvConversion ==
    <<vDxf, vFormat, vTest, vTransform, vFinal, vZone, vIfcMain, vExtract,
      vXmlMain, vDxfMain, vCsvMain, vLandXml, vArc, vDist, vUnits,
      vKmlDist, vIfcKml, vXmlKml, vDxfLines>>
vNotExtract == <<vDxf, vFormat, vTest, vTransform, vFinal, vZone, vIfcMain, vCsv,
    vXmlMain, vDxfMain, vCsvMain, vLandXml, vArc, vDist, vUnits,
    vKmlDist, vIfcKml, vCsvKml, vXmlKml, vDxfLines>>
vNotIfcMain == <<vDxf, vFormat, vTest, vTransform, vFinal, vZone, vCsv, vExtract,
    vXmlMain, vDxfMain, vCsvMain, vLandXml, vArc, vDist, vUnits,
    vKmlDist, vIfcKml, vCsvKml, vXmlKml, vDxfLines>>
vNotCsvMain == <<vDxf, vFormat, vTest, vTransform, vFinal, vZone, vIfcMain, vCsv,
    vExtract, vXmlMain, vDxfMain, vLandXml, vArc, vDist, vUnits,
    vKmlDist, vIfcKml, vCsvKml, vXmlKml, vDxfLines>>
vNotDxfMain == <<vDxf, vFormat, vTest, vTransform, vFinal, vZone, vIfcMain, vCsv,
    vExtract, vXmlMain, vCsvMain, vLandXml, vArc, vDist, vUnits,
    vKmlDist, vIfcKml, vCsvKml, vXmlKml, vDxfLines>>
vNotXmlMain == <<vDxf, vFormat, vTest, vTransform, vFinal, vZone, vIfcMain, vCsv,
    vExtract, vDxfMain, vCsvMain, vLandXml, vArc, vDist, vUnits,
    vKmlDist, vIfcKml, vCsvKml, vXmlKml, vDxfLines>>
vNotLandXml == <<vDxf, vFormat, vTest, vTransform, vFinal, vZone, vIfcMain, vCsv,
    vExtract, vXmlMain, vDxfMain, vCsvMain, vArc, vDist, vUnits,
    vKmlDist, vIfcKml, vCsvKml, vXmlKml, vDxfLines>>
vNotXmlConversion ==
    <<vDxf, vFormat, vTest, vTransform, vFinal, vZone, vIfcMain, vCsv,
      vExtract, vXmlMain, vDxfMain, vCsvMain, vArc, vDist, vUnits,
      vKmlDist, vIfcKml, vCsvKml, vDxfLines>>
vNotArc == <<vDxf, vFormat, vTest, vTransform, vFinal, vZone, vIfcMain, vCsv,
    vExtract, vXmlMain, vDxfMain, vCsvMain, vLandXml, vDist, vUnits,
    vKmlDist, vIfcKml, vCsvKml, vXmlKml, vDxfLines>>
vNotDist == <<vDxf, vFormat, vTest, vTransform, vFinal, vZone, vIfcMain, vCsv,
    vExtract, vXmlMain, vDxfMain, vCsvMain, vLandXml, vArc, vUnits,
    vKmlDist, vIfcKml, vCsvKml, vXmlKml, vDxfLines>>
vNotUnits == <<vDxf, vFormat, vTest, vTransform, vFinal, vZone, vIfcMain, vCsv,
    vExtract, vXmlMain, vDxfMain, vCsvMain, vLandXml, vArc, vDist,
    vKmlDist, vIfcKml, vCsvKml, vXmlKml, vDxfLines>>
vNotKmlDist == <<vDxf, vFormat, vTest, vTransform, vFinal, vZone, vIfcMain, vCsv,
    vExtract, vXmlMain, vDxfMain, vCsvMain, vLandXml, vArc, vDist,
    vUnits, vIfcKml, vCsvKml, vXmlKml, vDxfLines>>
vNotIfcKml == <<vDxf, vFormat, vTest, vTransform, vFinal, vZone, vIfcMain, vCsv,
    vExtract, vXmlMain, vDxfMain, vCsvMain, vLandXml, vArc, vDist,
    vUnits, vKmlDist, vCsvKml, vXmlKml, vDxfLines>>
vNotIfcConversion ==
    <<vDxf, vFormat, vTest, vTransform, vFinal, vZone, vIfcMain, vCsv,
      vXmlMain, vDxfMain, vCsvMain, vLandXml, vArc, vDist, vUnits,
      vKmlDist, vCsvKml, vXmlKml, vDxfLines>>
vNotCsvKml == <<vDxf, vFormat, vTest, vTransform, vFinal, vZone, vIfcMain, vCsv,
    vExtract, vXmlMain, vDxfMain, vCsvMain, vLandXml, vArc, vDist,
    vUnits, vKmlDist, vIfcKml, vXmlKml, vDxfLines>>
vNotXmlKml == <<vDxf, vFormat, vTest, vTransform, vFinal, vZone, vIfcMain, vCsv,
    vExtract, vXmlMain, vDxfMain, vCsvMain, vLandXml, vArc, vDist,
    vUnits, vKmlDist, vIfcKml, vCsvKml, vDxfLines>>
vNotDxfLines == <<vDxf, vFormat, vTest, vTransform, vFinal, vZone, vIfcMain, vCsv,
    vExtract, vXmlMain, vDxfMain, vCsvMain, vLandXml, vArc, vDist,
    vUnits, vKmlDist, vIfcKml, vCsvKml, vXmlKml>>

None == <<>>
Some(v) == <<v>>

(***************************************************************************)
(* Bounds of the model.                                                    *)
(***************************************************************************)
MaxPoints == 3
MaxHundreds == 2
MaxTestPoints == 4
MaxXyzPoints == 2
MaxZones == 3
MaxFiles == 2
MaxRows == 3
MaxPsets == 2

(***************************************************************************)
(* Arithmetic helpers.                                                     *)
(***************************************************************************)
Abs(n) == IF n < 0 THEN -n ELSE n

Last(s) == s[Len(s)]

RECURSIVE SqrtSearch(_, _, _)
SqrtSearch(n, lo, hi) ==
    IF lo >= hi THEN lo
    ELSE LET mid == (lo + hi + 1) \div 2
         IN  IF mid * mid <= n THEN SqrtSearch(n, mid, hi)
             ELSE SqrtSearch(n, lo, mid - 1)

\* math.sqrt of a squared length d2 (square units), in thousandths of the
\* unit; like a float, with fewer decimals the larger the value.
math_sqrt(d2) ==
    IF d2 <= 2147 THEN SqrtSearch(d2 * 1000000, 0, 46340)
    ELSE IF d2 <= 214748 THEN 10 * SqrtSearch(d2 * 10000, 0, 46340)
    ELSE 1000 * SqrtSearch(d2, 0, 46340)

(***************************************************************************)
(* The projection engine (pyproj) as the scripts use it: a registry of     *)
(* reference systems and a planar transform between two of them.  Every    *)
(* system maps its native coordinates onto one common frame by its unit    *)
(* (1200 per US survey foot and 3937 per metre, the exact ratio 1200/3937) *)
(* and its false origin; EPSG:4326 is the geographic frame.                *)
(***************************************************************************)
Registry ==
    ("EPSG:2871" :> [unit |-> 1200, e0 |-> 0,      n0 |-> 0,     lin |-> "ftUS"]) @@
    ("EPSG:2767" :> [unit |-> 3937, e0 |-> 0,      n0 |-> 0,     lin |-> "metre"]) @@
    ("EPSG:2872" :> [unit |-> 1200, e0 |-> 0,      n0 |-> 78740, lin |-> "ftUS"]) @@
    ("EPSG:2768" :> [unit |-> 3937, e0 |-> 0,      n0 |-> 78740, lin |-> "metre"]) @@
    ("EPSG:26942" :> [unit |-> 3937, e0 |-> 3937,   n0 |-> 0,     lin |-> "metre"]) @@
    ("EPSG:2226" :> [unit |-> 1200, e0 |-> 3937,   n0 |-> 0,     lin |-> "ftUS"]) @@
    ("EPSG:4326" :> [unit |-> 7,    e0 |-> 847000, n0 |-> -273000, lin |-> "degree"])

Known(epsg) == epsg \in DOMAIN Registry

\* Transformer.from_crs(source, target, always_xy=True).transform(x, y)
Transform(source, target, x, y) ==
    LET s == Registry[source]
        t == Registry[target]
        \* (v * s.unit + s0 - t0) \div t.unit, the product kept within range
        to_target(v, s0, t0) ==
            (v \div t.unit) * s.unit + ((v % t.unit) * s.unit + s0 - t0) \div t.unit
    IN  <<to_target(x, s.e0, t.e0), to_target(y, s.n0, t.n0)>>

\* get_transformer(): the pair of systems the Transformer was built from.
get_transformer == [source |-> "EPSG:2871", target |-> "EPSG:4326"]

\* transform_point handing z to the transformer with x and y, as for a 3D
\* system: the elevation comes back in the target frame.
dxf_transform_point_Through3D(x, y, z, transformer) ==
    LET ll == Transform(transformer.source, transformer.target, x, y)
        zz == Transform(transformer.source, transformer.target, x, z)
    IN  <<ll[1], ll[2], zz[2]>>

\* convert_dxf_to_kml.transform_point
dxf_transform_point(x, y, z, transformer) ==
    LET ll == Transform(transformer.source, transformer.target, x, y)
    IN  <<ll[1], ll[2], z>>

\* convert_ifc_to_kml.transform_point with its default source and target.
ifc_transform_point(x, y, z) ==
    LET ll == Transform("EPSG:2767", "EPSG:4326", x, y)
    IN  <<ll[1], ll[2], z>>

(***************************************************************************)
(* convert_dxf_to_kml.py: cumulative distances and the station format.     *)
(***************************************************************************)
\* the same sum taken over 3D distances
calculate_cumulative_distances_3D(pts) ==
    LET d[k \in 1..Len(pts)] ==
            IF k = 1 THEN 0
            ELSE d[k - 1] + math_sqrt((pts[k][1] - pts[k - 1][1]) * (pts[k][1] - pts[k - 1][1])
                                      + (pts[k][2] - pts[k - 1][2]) * (pts[k][2] - pts[k - 1][2])
                                      + (pts[k][3] - pts[k - 1][3]) * (pts[k][3] - pts[k - 1][3]))
    IN  [k \in 1..Len(pts) |-> d[k]]

RECURSIVE calculate_cumulative_distances(_)
calculate_cumulative_distances(pts) ==
    IF pts = <<>> THEN <<>>
    ELSE IF Len(pts) = 1 THEN <<0>>
    ELSE LET n == Len(pts)
             distances == calculate_cumulative_distances(SubSeq(pts, 1, n - 1))
             dx == pts[n][1] - pts[n - 1][1]
             dy == pts[n][2] - pts[n - 1][2]
             dist == math_sqrt(dx * dx + dy * dy)
         IN  Append(distances, Last(distances) + dist)

Pad2(n) == IF n < 10 THEN "0" \o ToString(n) ELSE ToString(n)

\* The float format ".2f" of a non-negative value given in thousandths:
\* the value in hundredths, correctly rounded (ties to even).
Round2(f) ==
    LET q == f \div 10
        r == f % 10
    IN  IF r > 5 \/ (r = 5 /\ q % 2 = 1) THEN q + 1 ELSE q

\* f"{feet:.2f}": the same without the zero padding to five characters.
Format05_2f_Unpadded(ft) ==
    LET h == Round2(ft)
    IN  ToString(h \div 100) \o "." \o Pad2(h % 100)

\* f"{feet:05.2f}"
Format05_2f(ft) ==
    LET h == Round2(ft)
    IN  Pad2(h \div 100) \o "." \o Pad2(h % 100)

\* Line 77: hundreds = int(station_feet // 100)
HundredsOf(v) == v \div 100000

\* Line 78: feet = station_feet % 100
FeetOf(v) == v % 100000

\* Line 79: f"{hundreds}+{feet:05.2f}"
StationText(h, ft) == ToString(h) \o "+" \o Format05_2f(ft)

format_station(v) == StationText(HundredsOf(v), FeetOf(v))

(***************************************************************************)
(* convert_dxf_to_kml(dxf_file, start_station, end_station) and create_kml *)
(***************************************************************************)
\* The POINT entities a DXF file can hold: (x, y, z, layer), feet.
DxfPoints ==
    { <<100, 0, 0, "layer0">>, <<110, 0, 0, "layer0">>, <<120, 0, 0, "layer0">>,
      <<103, 4, 0, "layer0">>, <<110, 0, 7, "RW">> }

\* What extract_polylines_from_dxf may return: no polyline, or one of two
\* vertices with elevations.
PolylineLists == { <<>>, << <<<<100, 0, 3>>, <<110, 0, 7>>>> >> }

RECURSIVE SeqsUpTo(_, _)
SeqsUpTo(S, n) ==
    IF n = 0 THEN {<<>>}
    ELSE LET shorter == SeqsUpTo(S, n - 1)
         IN  shorter \cup { Append(s, e) : s \in { t \in shorter : Len(t) = n - 1 }, e \in S }

StartStations == {None, Some(30000000)}
EndStations == {None, Some(30020000), Some(30030000)}

\* The state of a script that is not the one running.
IdleDxf ==
    /\ points = <<>>
    /\ start_station = None
    /\ end_station = None
    /\ cumulative_distances = None
    /\ total_distance = None
    /\ i = 0
    /\ placemarks = <<>>
    /\ kml_file = None

IdleFormat ==
    /\ station_feet = 0
    /\ hundreds = None
    /\ feet = None
    /\ station_str = None

IdleTest ==
    /\ test_points = <<>>
    /\ test_start_station = 0
    /\ test_end_station = 0
    /\ test_cumulative = None
    /\ station_ft_old = <<>>
    /\ station_ft_new = <<>>

IdleTransform ==
    /\ xyz_points = <<>>
    /\ dxf_transformed = <<>>
    /\ ifc_transformed = <<>>

IdleFinal ==
    /\ cm_ft = <<0, 0>>
    /\ rw = <<0, 0>>
    /\ cm_m = None
    /\ dist_ft_h1 = None
    /\ distances_computed = <<>>

IdleZone ==
    /\ ca_zones = <<>>
    /\ returned = <<>>
    /\ results = <<>>
    /\ utm_returned = <<>>
    /\ trans_wgs = None

IdleIfcMain ==
    /\ argv = <<>>
    /\ data_dir_exists = FALSE
    /\ data_dir_listing = <<>>
    /\ ifc_files = None
    /\ files_done = 0
    /\ kml_files = <<>>
    /\ written = {}
    /\ exit_status = None

IdleCsv ==
    /\ csv_lines = <<>>
    /\ rows_read = 0
    /\ control_points = <<>>

IdleExtract ==
    /\ property_sets = <<>>
    /\ psets_done = 0
    /\ ifc_points = <<>>
    /\ products_examined = FALSE
    /\ geometry_data = None

IdleXmlMain ==
    /\ xml_dir_exists = FALSE
    /\ xml_dir_listing = <<>>
    /\ xml_files = None
    /\ xml_files_done = 0
    /\ xml_kml_files = <<>>
    /\ xml_written = {}
    /\ xml_exit_status = None

IdleDxfMain ==
    /\ dxf_argv = <<>>
    /\ dxf_glob = <<>>
    /\ dxf_files_done = 0
    /\ dxf_written = {}
    /\ dxf_exit_status = None

IdleCsvMain ==
    /\ csv_argv = <<>>
    /\ csv_existing = {}
    /\ csv_file = None
    /\ csv_written = {}
    /\ csv_exit_status = None

IdleLandXml ==
    /\ coord_geom = <<>>
    /\ lines_done = 0
    /\ curves_done = 0
    /\ coord_points = <<>>
    /\ unique_points = None

IdleArc ==
    /\ arc_args = <<>>
    /\ start_angle = None
    /\ delta_rad = None
    /\ arc_i = 0
    /\ arc_points = <<>>

IdleDist ==
    /\ point1 = <<>>
    /\ point2 = <<>>
    /\ distance_3d = None
    /\ distance_horizontal = None
    /\ distance_2d = None

IdleUnits ==
    /\ length_ft = <<>>
    /\ length_m = None
    /\ length_back = None
    /\ distance_ft = None
    /\ distance_us_ft = None
    /\ direct_ft = None
    /\ conversions = {}
    /\ point_ft = <<>>
    /\ point_m = None
    /\ point_back = None

IdleKmlDist ==
    /\ cm_point_ft = <<>>
    /\ rw_point_m = <<>>
    /\ rw_point_ft = None
    /\ current_dist = None
    /\ cm_point_m = None
    /\ distance_m = None
    /\ distance_m_ft = None

IdleIfcKml ==
    /\ ifc_products = <<>>
    /\ products_done = 0
    /\ ifc_lines = <<>>
    /\ ifc_polygons = <<>>
    /\ ifc_placemarks = <<>>
    /\ ifc_kml_file = None

IdleCsvKml ==
    /\ csv_placemarks = <<>>
    /\ csv_kml_file = None
    /\ csv_returned = None

IdleXmlKml ==
    /\ transformed_points = None
    /\ xml_kml_file = None

IdleDxfLines ==
    /\ polylines = <<>>
    /\ polyline_placemarks = <<>>

IdleExcept(script) ==
    /\ IF script = "dxf" THEN TRUE ELSE IdleDxf
    /\ IF script = "format" THEN TRUE ELSE IdleFormat
    /\ IF script = "test" THEN TRUE ELSE IdleTest
    /\ IF script = "transform" THEN TRUE ELSE IdleTransform
    /\ IF script = "final" THEN TRUE ELSE IdleFinal
    /\ IF script = "zone" THEN TRUE ELSE IdleZone
    /\ IF script = "ifc_main" THEN TRUE ELSE IdleIfcMain
    /\ IF script = "csv" THEN TRUE ELSE IdleCsv
    /\ IF script = "extract" THEN TRUE ELSE IdleExtract
    /\ IF script = "xml_main" THEN TRUE ELSE IdleXmlMain
    /\ IF script = "dxf_main" THEN TRUE ELSE IdleDxfMain
    /\ IF script = "csv_main" THEN TRUE ELSE IdleCsvMain
    /\ IF script = "landxml" THEN TRUE ELSE IdleLandXml
    /\ IF script = "arc" THEN TRUE ELSE IdleArc
    /\ IF script = "distance" THEN TRUE ELSE IdleDist
    /\ IF script = "units" THEN TRUE ELSE IdleUnits
    /\ IF script = "kml_distance" THEN TRUE ELSE IdleKmlDist
    /\ IF script = "extract" THEN TRUE ELSE IdleIfcKml
    /\ IF script = "csv" THEN TRUE ELSE IdleCsvKml
    /\ IF script = "landxml" THEN TRUE ELSE IdleXmlKml
    /\ IF script = "dxf" THEN TRUE ELSE IdleDxfLines

InitDxf ==
    /\ points \in SeqsUpTo(DxfPoints, MaxPoints)
    /\ start_station \in StartStations
    /\ end_station \in EndStations
    /\ cumulative_distances = None
    /\ total_distance = None
    /\ i = 0
    /\ placemarks = <<>>
    /\ kml_file = None
    /\ polylines \in PolylineLists
    /\ polyline_placemarks = <<>>

\* Lines 309-324: the description is built and create_kml is entered with
\* the caller's start and end station.
ConvertDxfToKml ==
    /\ pc = "convert_dxf_to_kml"
    /\ pc' = "create_kml"
    /\ stdout' = stdout \o <<"Reading DXF file", "Found POINT entities">>
    /\ UNCHANGED <<vDxf, vNotDxf>>

\* Lines 157-167.
CreateKmlBegin ==
    /\ pc = "create_kml"
    /\ IF points # <<>> /\ start_station # None /\ end_station # None
       THEN /\ cumulative_distances' = Some(calculate_cumulative_distances(points))
            /\ total_distance' = Some(Last(calculate_cumulative_distances(points)))
            /\ stdout' = stdout \o <<"Creating coordinate transformer",
                                     "Calculating cumulative distances",
                                     "Total distance", "Station range">>
       ELSE /\ UNCHANGED <<cumulative_distances, total_distance>>
            /\ stdout' = Append(stdout, "Creating coordinate transformer")
    /\ pc' = "points_loop"
    /\ UNCHANGED <<points, start_station, end_station, i, placemarks, kml_file, vNotDxf>>

\* The interpolation with the progress taken by floor division.
InterpolatedStation_FloorProgress(start, end, cum, total) ==
    start + (end - start) * (cum \div total)

\* Lines 218-219: progress = cumulative_distances[i] / total_distance;
\* station_ft = start_station + (end_station - start_station) * progress.
InterpolatedStation(start, end, cum, total) ==
    start + ((end - start) * cum) \div total

\* Line 223: station_ft = i * 8.0 (i counts from 0).
FallbackStation(idx) == idx * 8000

\* the elevation written as the altitude
Placemark_WithElevation(idx, station_ft) ==
    LET p == points[idx + 1]
        t == dxf_transform_point(p[1], p[2], p[3], get_transformer)
    IN  [name |-> "RW Sta " \o format_station(station_ft),
         station_ft |-> station_ft,
         layer |-> p[4], elev |-> t[3],
         coordinates |-> <<t[1], t[2], t[3]>>,
         altitudeMode |-> "clampToGround"]

Placemark(idx, station_ft) ==
    LET p == points[idx + 1]
        t == dxf_transform_point(p[1], p[2], p[3], get_transformer)
    IN  [name |-> "RW Sta " \o format_station(station_ft),
         station_ft |-> station_ft,
         layer |-> p[4], elev |-> t[3],
         coordinates |-> <<t[1], t[2], 0>>,
         altitudeMode |-> "clampToGround"]

\* Lines 209-240, one iteration of the loop over the points.
CreateKmlPoint ==
    /\ pc = "points_loop"
    /\ i < Len(points)
    /\ IF start_station # None /\ end_station # None
          /\ cumulative_distances # None /\ cumulative_distances[1] # <<>>
       THEN IF total_distance[1] = 0
            THEN \* ZeroDivisionError at line 218; nothing catches it
                 /\ pc' = "crashed"
                 /\ stdout' = Append(stdout, "ZeroDivisionError")
                 /\ UNCHANGED <<i, placemarks>>
            ELSE /\ placemarks' = Append(placemarks,
                        Placemark(i, InterpolatedStation(start_station[1], end_station[1],
                                         cumulative_distances[1][i + 1], total_distance[1])))
                 /\ i' = i + 1
                 /\ UNCHANGED <<pc, stdout>>
       ELSE /\ placemarks' = Append(placemarks, Placemark(i, FallbackStation(i)))
            /\ i' = i + 1
            /\ UNCHANGED <<pc, stdout>>
    /\ UNCHANGED <<points, start_station, end_station, cumulative_distances,
                   total_distance, kml_file, vNotDxf>>

\* Lines 255-281, one polyline.
PolylinePlacemark(idx, coords) ==
    [name |-> "Polyline " \o ToString(idx + 1),
     vertices |-> Len(coords),
     altitudeMode |-> "clampToGround",
     coordinates |->
         [k \in 1..Len(coords) |->
             LET t == dxf_transform_point(coords[k][1], coords[k][2], coords[k][3],
                                          get_transformer)
             IN  <<t[1], t[2], 0>>]]

\* Lines 242-297: the folder is closed, the Polylines folder is added and
\* the document is written.
CreateKmlWrite ==
    /\ pc = "points_loop"
    /\ i = Len(points)
    /\ polyline_placemarks' =
           [k \in 1..Len(polylines) |-> PolylinePlacemark(k - 1, polylines[k])]
    /\ kml_file' = Some(placemarks)
    /\ stdout' = stdout \o <<"Writing KML file", "Created KML file">>
    /\ pc' = "done"
    /\ UNCHANGED <<points, start_station, end_station, cumulative_distances,
                   total_distance, i, placemarks, polylines, vNotDxfConversion>>

InitStation ==
    /\ pc = "convert_dxf_to_kml"
    /\ stdout = <<>>
    /\ InitDxf
    /\ IdleExcept("dxf")

NextStation ==
    \/ ConvertDxfToKml
    \/ CreateKmlBegin
    \/ CreateKmlPoint
    \/ CreateKmlWrite

SpecStation == InitStation /\ [][NextStation]_vars

(***************************************************************************)
(* Claims about the station assignment of create_kml.                      *)
(***************************************************************************)
Range(s) == { s[k] : k \in 1..Len(s) }

StationRangeGiven == start_station # None /\ end_station # None

\* start_station plus the cumulative 2D distance from point 0 to point k-1.
CumulativeStation(k) == start_station[1] + calculate_cumulative_distances(points)[k]

\* C1: when a station range is supplied, the station create_kml gives to
\* every point is start_station plus the cumulative 2D distance from point 0
\* to that point, never a value rescaled to the supplied range.
C1_StationIsCumulativeSum ==
    StationRangeGiven =>
        \A k \in 1..Len(placemarks) : placemarks[k].station_ft = CumulativeStation(k)

\* C2: when the measured total length differs from end_station - start_station
\* by more than the tolerance (here a hundredth of a foot), create_kml has
\* printed a warning about the mismatch once line 167 is passed, it does not
\* crash, and the stations it assigns are not rescaled to the range.
MeasuredMismatch ==
    /\ StationRangeGiven
    /\ total_distance # None
    /\ Abs(total_distance[1] - (end_station[1] - start_station[1])) > 10

C2_MismatchWarnedNotRescaled ==
    MeasuredMismatch =>
        /\ pc # "crashed"
        /\ "Warning: station range mismatch" \in Range(stdout)
        /\ \A k \in 1..Len(placemarks) : placemarks[k].station_ft = CumulativeStation(k)

\* Points on one line of constant y, each 10 ft after the one before.
Colinear10(pts) ==
    \A k \in 2..Len(pts) : pts[k][1] = pts[k - 1][1] + 10 /\ pts[k][2] = pts[k - 1][2]

\* C4: with start_station = 30000.0 and no end station, colinear points 10 ft
\* apart are labelled "300+00.00", "300+10.00", "300+20.00", ...:
\* station[i] = start + 10 * i.
C4_StartOnlyStations ==
    (start_station = Some(30000000) /\ end_station = None /\ Colinear10(points)) =>
        \A k \in 1..Len(placemarks) :
            /\ placemarks[k].station_ft = 30000000 + 10000 * (k - 1)
            /\ placemarks[k].name = "RW Sta 300+" \o Pad2(10 * (k - 1)) \o ".00"

(***************************************************************************)
(* format_station called on its own, one statement per step.               *)
(***************************************************************************)
StationRemainders == {0, 4, 5, 6, 10, 990, 32670, 48770, 99990, 99994, 99996, 99999}

StationValues ==
    { h * 100000 + r : h \in -1..MaxHundreds, r \in StationRemainders } \cup {10048770}

InitFormatStation ==
    /\ pc = "format_station"
    /\ stdout = <<>>
    /\ station_feet \in StationValues
    /\ hundreds = None
    /\ feet = None
    /\ station_str = None
    /\ IdleExcept("format")

\* Lines 77-78.
FormatStationSplit ==
    /\ pc = "format_station"
    /\ hundreds' = Some(HundredsOf(station_feet))
    /\ feet' = Some(FeetOf(station_feet))
    /\ pc' = "format_return"
    /\ UNCHANGED <<stdout, station_feet, station_str, vNotFormat>>

\* Line 79.
FormatStationReturn ==
    /\ pc = "format_return"
    /\ station_str' = Some(StationText(hundreds[1], feet[1]))
    /\ pc' = "format_done"
    /\ UNCHANGED <<stdout, station_feet, hundreds, feet, vNotFormat>>

NextFormat ==
    \/ FormatStationSplit
    \/ FormatStationReturn

SpecFormat == InitFormatStation /\ [][NextFormat]_vars

\* A station value given to two decimals.
TwoDecimals(v) == v % 10 = 0

\* C5: for every non-negative station value v given to two decimals,
\* format_station(v) is "<floor(v/100)>+<v mod 100>", the remainder printed
\* with two decimals and zero-padded to five characters; format_station(32.67)
\* is "0+32.67" and format_station(10048.77) is "100+48.77".
C5_FormatStationText ==
    (pc = "format_done" /\ station_feet >= 0 /\ TwoDecimals(station_feet)) =>
        LET cents == station_feet \div 10
            whole == (cents % 10000) \div 100
            frac == cents % 100
            tens == IF whole < 10 THEN "0" ELSE ""
            ftens == IF frac < 10 THEN "0" ELSE ""
        IN  /\ station_str[1] = ToString(cents \div 10000) \o "+" \o tens
                                   \o ToString(whole) \o "." \o ftens \o ToString(frac)
            /\ Len(station_str[1]) = Len(ToString(cents \div 10000)) + 6
            /\ station_feet = 32670 => station_str[1] = "0+32.67"
            /\ station_feet = 10048770 => station_str[1] = "100+48.77"

C5_Witness ==
    pc = "format_done" /\ station_feet = 10048770 /\ station_str = Some("100+48.77")

\* The text format_station prints after the '+'.
RemainderText == Format05_2f(feet[1])

\* C6: for every station value v, also one whose remainder rounds up (199.996)
\* and a negative one, the text after the '+' has exactly five characters and
\* denotes a number in [00.00, 99.99], and hundreds * 100 + remainder is v
\* rounded to two decimals.
C6_RemainderFiveChars ==
    pc = "format_done" =>
        /\ station_str[1] = ToString(hundreds[1]) \o "+" \o RemainderText
        /\ Len(RemainderText) = 5
        /\ Round2(feet[1]) \in 0..9999
        /\ hundreds[1] * 10000 + Round2(feet[1]) = Round2(station_feet)

(***************************************************************************)
(* test_coordinate_fixes.py, TEST 2: the OLD (interpolation) and the NEW   *)
(* (direct distance) station formula over the same points.  The script     *)
(* runs them for end_station and again for wrong_end_station; here the end *)
(* station is drawn from a set that holds matching and mismatching ranges. *)
(***************************************************************************)
TestPoints ==
    { <<100, 0, 0, "layer0">>, <<110, 0, 0, "layer0">>, <<103, 4, 0, "layer0">> }

TestEndStations == {30010000, 30020000, 30030000, 30050000}

\* Line 134: station_ft_new = start_station + cumulative_distances[i]
DirectStation(start, cum) == start + cum

InitTest ==
    /\ pc = "test_cumulative"
    /\ stdout = <<>>
    /\ test_points \in SeqsUpTo(TestPoints, MaxTestPoints)
    /\ test_start_station = 30000000
    /\ test_end_station \in TestEndStations
    /\ test_cumulative = None
    /\ station_ft_old = <<>>
    /\ station_ft_new = <<>>
    /\ IdleExcept("test")

\* Lines 104-105: cumulative_distances[-1] of an empty list is an IndexError.
TestCumulative ==
    /\ pc = "test_cumulative"
    /\ test_cumulative' = Some(calculate_cumulative_distances(test_points))
    /\ IF test_points = <<>>
       THEN pc' = "crashed" /\ stdout' = Append(stdout, "IndexError")
       ELSE pc' = "test_old" /\ stdout' = Append(stdout, "Test Setup")
    /\ UNCHANGED <<test_points, test_start_station, test_end_station,
                   station_ft_old, station_ft_new, vNotTest>>

\* Lines 120-127 (and 153-162), one iteration.
TestOldFormula ==
    /\ pc = "test_old"
    /\ Len(station_ft_old) < Len(test_points)
    /\ IF Last(test_cumulative[1]) = 0
       THEN /\ pc' = "crashed"
            /\ stdout' = Append(stdout, "ZeroDivisionError")
            /\ UNCHANGED station_ft_old
       ELSE /\ station_ft_old' = Append(station_ft_old,
                    InterpolatedStation(test_start_station, test_end_station,
                                        test_cumulative[1][Len(station_ft_old) + 1],
                                        Last(test_cumulative[1])))
            /\ UNCHANGED <<pc, stdout>>
    /\ UNCHANGED <<test_points, test_start_station, test_end_station,
                   test_cumulative, station_ft_new, vNotTest>>

\* Line 129.
TestOldDone ==
    /\ pc = "test_old"
    /\ Len(station_ft_old) = Len(test_points)
    /\ pc' = "test_new"
    /\ stdout' = Append(stdout, "PROBLEM: Stations are scaled/interpolated")
    /\ UNCHANGED vTest
    /\ UNCHANGED vNotTest

\* Lines 133-139 (and 167-172), one iteration.
TestNewFormula ==
    /\ pc = "test_new"
    /\ Len(station_ft_new) < Len(test_points)
    /\ station_ft_new' = Append(station_ft_new,
            DirectStation(test_start_station, test_cumulative[1][Len(station_ft_new) + 1]))
    /\ UNCHANGED <<pc, stdout, test_points, test_start_station, test_end_station,
                   test_cumulative, station_ft_old, vNotTest>>

\* Line 141.
TestNewDone ==
    /\ pc = "test_new"
    /\ Len(station_ft_new) = Len(test_points)
    /\ pc' = "test_done"
    /\ stdout' = Append(stdout, "SUCCESS: Stations directly match measured distances")
    /\ UNCHANGED vTest
    /\ UNCHANGED vNotTest

NextTest ==
    \/ TestCumulative
    \/ TestOldFormula
    \/ TestOldDone
    \/ TestNewFormula
    \/ TestNewDone

SpecTest == InitTest /\ [][NextTest]_vars

TestTotal == Last(test_cumulative[1])

\* C3: for points of total 2D length T > 0 and any start and end station,
\* the cumulative and the interpolation formula give every point the same
\* station when T = end - start, and give the last point different stations
\* when T differs from end - start.
C3_FormulasCoincideIffRangeMatches ==
    (pc = "test_done" /\ TestTotal > 0) =>
        /\ TestTotal = test_end_station - test_start_station =>
               \A k \in 1..Len(test_points) : station_ft_old[k] = station_ft_new[k]
        /\ TestTotal # test_end_station - test_start_station =>
               station_ft_old[Len(test_points)] # station_ft_new[Len(test_points)]

\* Both cases are reached: a matching range over points that are not
\* equally spaced, and the mismatching range of the test script.
C3_Witness ==
    /\ pc = "test_done"
    /\ Len(test_points) = 4
    /\ TestTotal = test_end_station - test_start_station
    /\ test_cumulative[1][2] > 0
    /\ test_cumulative[1][2] * 3 # TestTotal
    /\ station_ft_old = station_ft_new

(***************************************************************************)
(* transform_point of the DXF and of the IFC converter, called on the      *)
(* same (x, y, z) points (create_kml line 213, create_kml_from_geometry    *)
(* line 335).                                                              *)
(***************************************************************************)
XyzPoints ==
    { <<x, y, z>> : x \in {100, 103}, y \in {0, 4}, z \in {0, 7, 2280} }

InitTransform ==
    /\ pc = "transform_point"
    /\ stdout = <<>>
    /\ xyz_points \in SeqsUpTo(XyzPoints, MaxXyzPoints)
    /\ dxf_transformed = <<>>
    /\ ifc_transformed = <<>>
    /\ IdleExcept("transform")

DxfTransformPoint ==
    /\ pc = "transform_point"
    /\ Len(dxf_transformed) < Len(xyz_points)
    /\ LET p == xyz_points[Len(dxf_transformed) + 1]
       IN  dxf_transformed' = Append(dxf_transformed,
                                  dxf_transform_point(p[1], p[2], p[3], get_transformer))
    /\ UNCHANGED <<pc, stdout, xyz_points, ifc_transformed, vNotTransform>>

IfcTransformPoint ==
    /\ pc = "transform_point"
    /\ Len(ifc_transformed) < Len(xyz_points)
    /\ LET p == xyz_points[Len(ifc_transformed) + 1]
       IN  ifc_transformed' = Append(ifc_transformed, ifc_transform_point(p[1], p[2], p[3]))
    /\ UNCHANGED <<pc, stdout, xyz_points, dxf_transformed, vNotTransform>>

NextTransform ==
    \/ DxfTransformPoint
    \/ IfcTransformPoint

SpecTransform == InitTransform /\ [][NextTransform]_vars

\* A linear unit factor as numerator and denominator: none, US survey feet
\* to metres, metres to US survey feet.
UnitFactors == { <<1, 1>>, <<1200, 3937>>, <<3937, 1200>> }

\* The returned longitude and latitude are those of the 2D transform of
\* (x, y), equal for equal (x, y), and every returned elevation is the input
\* elevation times one unit factor.
ElevationOnlyScaled(out, source) ==
    /\ \A k \in 1..Len(out) :
          <<out[k][1], out[k][2]>> =
              Transform(source, "EPSG:4326", xyz_points[k][1], xyz_points[k][2])
    /\ \A j, k \in 1..Len(out) :
          (xyz_points[j][1] = xyz_points[k][1] /\ xyz_points[j][2] = xyz_points[k][2])
              => (out[j][1] = out[k][1] /\ out[j][2] = out[k][2])
    /\ \E f \in UnitFactors :
          \A k \in 1..Len(out) : out[k][3] * f[2] = xyz_points[k][3] * f[1]

\* C7: transform_point of the DXF and of the IFC converter never passes the
\* elevation through the horizontal reprojection: longitude and latitude
\* depend on (x, y) only, and the elevation returned is the input elevation
\* times at most a unit factor.
C7_ElevationBypassesProjection ==
    /\ ElevationOnlyScaled(dxf_transformed, "EPSG:2871")
    /\ ElevationOnlyScaled(ifc_transformed, "EPSG:2767")

\* Two points of equal (x, y) and different non-zero elevation went through
\* both converters.
C7_Witness ==
    /\ Len(dxf_transformed) = 2
    /\ Len(ifc_transformed) = 2
    /\ xyz_points[1][1] = xyz_points[2][1]
    /\ xyz_points[1][2] = xyz_points[2][2]
    /\ xyz_points[1][3] = 7
    /\ xyz_points[2][3] = 2280

(***************************************************************************)
(* final_analysis.py: the control point CM 10.99 (EPSG:2871, US survey     *)
(* feet) against the IFC Start Point (EPSG:2767, metres), one hypothesis   *)
(* after the other.  The script fixes the coordinates; here they are drawn *)
(* from small sets.                                                        *)
(***************************************************************************)
\* analyze_coordinate_problem.calculate_distance_2d, and the same expression
\* written out at each hypothesis of final_analysis.py.
calculate_distance_2d(x1, y1, x2, y2) ==
    math_sqrt((x2 - x1) * (x2 - x1) + (y2 - y1) * (y2 - y1))

\* dist_m / (1200/3937): metres to US survey feet.
meters_to_feet(meters) == (meters * 3937) \div 1200

CmPoints == { <<130, 100>>, <<132, 100>>, <<130, 104>>, <<141, 89>> }
RwPoints == { <<39, 30>>, <<40, 31>>, <<42, 27>>, <<45, 30>> }

site_origin == <<41, 33>>
cm_10_90_ft == <<120, 95>>
rw_000 == <<44, 38>>

InitFinal ==
    /\ pc = "final_transform_cm"
    /\ stdout = <<>>
    /\ cm_ft \in CmPoints
    /\ rw \in RwPoints
    /\ cm_m = None
    /\ dist_ft_h1 = None
    /\ distances_computed = <<>>
    /\ IdleExcept("final")

\* A distance the script computed: it came out as a number.
Computed(name, a, b, value) ==
    [hypothesis |-> name, a |-> a, b |-> b, outcome |-> "number", value |-> value]

FinalStep(from, to, computed) ==
    /\ pc = from
    /\ pc' = to
    /\ distances_computed' = distances_computed \o computed
    /\ stdout' = Append(stdout, from)

\* Lines 44-45.
FinalTransformCm ==
    /\ FinalStep("final_transform_cm", "final_h1", <<>>)
    /\ cm_m' = Some(Transform("EPSG:2871", "EPSG:2767", cm_ft[1], cm_ft[2]))
    /\ UNCHANGED <<cm_ft, rw, dist_ft_h1, vNotFinal>>

\* Lines 56-57: both operands in EPSG:2767.
FinalHypothesis1 ==
    LET dist_m_h1 == calculate_distance_2d(rw[1], rw[2], cm_m[1][1], cm_m[1][2])
    IN  /\ FinalStep("final_h1", "final_h2",
                     <<Computed("H1", "EPSG:2767", "EPSG:2767", dist_m_h1)>>)
        /\ dist_ft_h1' = Some(meters_to_feet(dist_m_h1))
        /\ UNCHANGED <<cm_ft, rw, cm_m, vNotFinal>>

\* Lines 68-79: the Start Point numbers are read as feet; nothing converts them.
FinalHypothesis2 ==
    LET rw_as_feet == rw
        dist_ft_h2 == calculate_distance_2d(rw_as_feet[1], rw_as_feet[2], cm_ft[1], cm_ft[2])
    IN  /\ FinalStep("final_h2", "final_h3",
                     <<Computed("H2", "EPSG:2871", "EPSG:2767", dist_ft_h2)>>)
        /\ UNCHANGED <<cm_ft, rw, cm_m, dist_ft_h1, vNotFinal>>

\* Lines 90-98.
FinalHypothesis3 ==
    LET rw_abs == <<site_origin[1] + rw[1], site_origin[2] + rw[2]>>
        dist_m_h3 == calculate_distance_2d(rw_abs[1], rw_abs[2], cm_m[1][1], cm_m[1][2])
    IN  /\ FinalStep("final_h3", "final_h5a",
                     <<Computed("H3", "EPSG:2767", "EPSG:2767", dist_m_h3)>>)
        /\ UNCHANGED <<cm_ft, rw, cm_m, dist_ft_h1, vNotFinal>>

\* One try block of hypothesis 5: the Start Point is transformed from
\* `source` to EPSG:2871 and compared there; an exception is printed.
FinalTryZone(from, to, name, source) ==
    /\ pc = from
    /\ UNCHANGED <<cm_ft, rw, cm_m, dist_ft_h1, vNotFinal>>
    /\ IF Known(source)
       THEN LET t == Transform(source, "EPSG:2871", rw[1], rw[2])
            IN  FinalStep(from, to,
                          <<Computed(name, "EPSG:2871", "EPSG:2871",
                                     calculate_distance_2d(t[1], t[2], cm_ft[1], cm_ft[2]))>>)
       ELSE FinalStep(from, to, <<>>)

\* Lines 130-141.
FinalHypothesis5a ==
    /\ pc = "final_h5a"
    /\ FinalTryZone("final_h5a", "final_h5b", "H5a", "EPSG:26942")

\* Lines 144-155.
FinalHypothesis5b ==
    /\ pc = "final_h5b"
    /\ FinalTryZone("final_h5b", "final_h6", "H5b", "EPSG:2226")

\* Lines 165-178: scale_factor = 83.0 / dist_ft_h1 divides by zero when the
\* two points coincide.
FinalHypothesis6 ==
    /\ pc = "final_h6"
    /\ UNCHANGED <<cm_ft, rw, cm_m, dist_ft_h1, vNotFinal>>
    /\ IF dist_ft_h1[1] = 0
       THEN /\ pc' = "crashed"
            /\ stdout' = Append(stdout, "ZeroDivisionError")
            /\ UNCHANGED distances_computed
       ELSE LET rw_x_scaled == (rw[1] * 83000) \div dist_ft_h1[1]
                rw_y_scaled == (rw[2] * 83000) \div dist_ft_h1[1]
            IN  FinalStep("final_h6", "final_cm_pair",
                          <<Computed("H6", "EPSG:2767", "EPSG:2767",
                                     calculate_distance_2d(rw_x_scaled, rw_y_scaled,
                                                           cm_m[1][1], cm_m[1][2]))>>)

\* Lines 214-219.
FinalControlPointPair ==
    LET cm_10_90_m == Transform("EPSG:2871", "EPSG:2767", cm_10_90_ft[1], cm_10_90_ft[2])
    IN  /\ FinalStep("final_cm_pair", "final_rw_pair",
                     <<Computed("CM", "EPSG:2767", "EPSG:2767",
                                calculate_distance_2d(cm_10_90_m[1], cm_10_90_m[2],
                                                      cm_m[1][1], cm_m[1][2]))>>)
        /\ UNCHANGED <<cm_ft, rw, cm_m, dist_ft_h1, vNotFinal>>

\* Lines 234-248.
FinalStationPair ==
    /\ FinalStep("final_rw_pair", "final_done",
                 <<Computed("RW", "EPSG:2767", "EPSG:2767",
                            calculate_distance_2d(rw_000[1], rw_000[2], rw[1], rw[2]))>>)
    /\ UNCHANGED <<cm_ft, rw, cm_m, dist_ft_h1, vNotFinal>>

NextFinal ==
    \/ FinalTransformCm
    \/ FinalHypothesis1
    \/ FinalHypothesis2
    \/ FinalHypothesis3
    \/ FinalHypothesis5a
    \/ FinalHypothesis5b
    \/ FinalHypothesis6
    \/ FinalControlPointPair
    \/ FinalStationPair

SpecFinal == InitFinal /\ [][NextFinal]_vars

\* C8: no distance is computed between two points declared in different
\* reference systems or units: a computation whose operands are one in
\* EPSG:2871 (feet) and one in EPSG:2767 (metres), with no conversion
\* applied, ends in a unit-mismatch error and not in a number.
C8_NoMixedUnitDistance ==
    \A k \in 1..Len(distances_computed) :
        distances_computed[k].a # distances_computed[k].b
            => distances_computed[k].outcome = "UnitMismatchError"

(***************************************************************************)
(* zone_investigation.py: the Start Point is taken to be in each candidate *)
(* zone in turn, transformed to EPSG:2871 and compared with CM 10.99.      *)
(***************************************************************************)
\* test_transformation falling back to EPSG:2767 for a system it cannot find.
test_transformation_Fallback(source_epsg, rw_x, rw_y, cm_east_ft, cm_north_ft) ==
    LET source == IF Known("EPSG:" \o source_epsg)
                  THEN "EPSG:" \o source_epsg ELSE "EPSG:2767"
        t == Transform(source, "EPSG:2871", rw_x, rw_y)
    IN  <<Some(t[1]), Some(t[2]),
          Some(calculate_distance_2d(cm_east_ft, cm_north_ft, t[1], t[2]))>>

\* Lines 14-26.  The code is prefixed with "EPSG:" (line 18); a system the
\* registry does not know raises inside the try and (None, None, None) is
\* returned.
test_transformation(source_epsg, rw_x, rw_y, cm_east_ft, cm_north_ft) ==
    IF Known("EPSG:" \o source_epsg)
    THEN LET t == Transform("EPSG:" \o source_epsg, "EPSG:2871", rw_x, rw_y)
         IN  <<Some(t[1]), Some(t[2]),
               Some(calculate_distance_2d(cm_east_ft, cm_north_ft, t[1], t[2]))>>
    ELSE <<None, None, None>>

Distinct(s) == Len(s) = Cardinality({ s[k] : k \in 1..Len(s) })

\* The codes a ca_zones dict can hold: with and without the "EPSG:" prefix
\* that line 18 adds again.
ZoneCodes == { "2767", "2872", "EPSG:2767", "EPSG:2871" }

utm_zones == << "EPSG:26910", "EPSG:26911", "EPSG:3310" >>

zone_cm_ft == <<130, 100>>
zone_rw == <<40, 31>>

InitZone ==
    /\ pc = "zone_loop"
    /\ stdout = <<>>
    /\ ca_zones \in { z \in SeqsUpTo(ZoneCodes, MaxZones) : Distinct(z) }
    /\ returned = <<>>
    /\ results = <<>>
    /\ utm_returned = <<>>
    /\ trans_wgs = None
    /\ IdleExcept("zone")

\* Lines 82-97, one iteration.
ZoneTest ==
    /\ pc = "zone_loop"
    /\ Len(returned) < Len(ca_zones)
    /\ LET epsg_code == ca_zones[Len(returned) + 1]
           r == test_transformation(epsg_code, zone_rw[1], zone_rw[2],
                                    zone_cm_ft[1], zone_cm_ft[2])
       IN  /\ returned' = Append(returned, r)
           /\ IF r[1] # None
              THEN /\ results' = Append(results,
                          [epsg |-> epsg_code, rw_e |-> r[1][1], rw_n |-> r[2][1],
                           distance |-> r[3][1]])
                   /\ stdout' = IF 80000 < r[3][1] /\ r[3][1] < 86000
                                THEN Append(stdout, "MATCHES " \o epsg_code)
                                ELSE stdout
              ELSE UNCHANGED <<results, stdout>>
    /\ UNCHANGED <<pc, ca_zones, utm_returned, trans_wgs, vNotZone>>

\* key=lambda x: abs(x['distance'] - 83)
ErrorTo83(x) == Abs(x.distance - 83000)

RECURSIVE InsertByError(_, _)
InsertByError(s, e) ==
    IF s = <<>> THEN <<e>>
    ELSE IF ErrorTo83(e) < ErrorTo83(Head(s)) THEN <<e>> \o s
    ELSE <<Head(s)>> \o InsertByError(Tail(s), e)

\* list.sort with that key: ascending and stable.
RECURSIVE SortedByError(_)
SortedByError(s) ==
    IF s = <<>> THEN <<>>
    ELSE InsertByError(SortedByError(SubSeq(s, 1, Len(s) - 1)), s[Len(s)])

\* Lines 104-114: results.sort(key=lambda x: abs(x['distance'] - 83)).
ZoneSort ==
    /\ pc = "zone_loop"
    /\ Len(returned) = Len(ca_zones)
    /\ results' = SortedByError(results)
    /\ stdout' = Append(stdout, "RESULTS SORTED BY DISTANCE")
    /\ pc' = "zone_utm"
    /\ UNCHANGED <<ca_zones, returned, utm_returned, trans_wgs, vNotZone>>

\* Lines 128-135, one iteration.
ZoneUtmTest ==
    /\ pc = "zone_utm"
    /\ Len(utm_returned) < Len(utm_zones)
    /\ LET epsg_code == utm_zones[Len(utm_returned) + 1]
           r == test_transformation(epsg_code, zone_rw[1], zone_rw[2],
                                    zone_cm_ft[1], zone_cm_ft[2])
       IN  /\ utm_returned' = Append(utm_returned, r)
           /\ stdout' = IF r[1] # None /\ r[3] # None /\ r[3] # Some(0)
                        THEN Append(stdout, "Distance " \o epsg_code)
                        ELSE stdout
    /\ UNCHANGED <<pc, ca_zones, returned, results, trans_wgs, vNotZone>>

\* Lines 148-171: each code that EPSG:4326 can be transformed to is kept,
\* the others are passed over.
ZoneRangeCheck ==
    /\ pc = "zone_utm"
    /\ Len(utm_returned) = Len(utm_zones)
    /\ trans_wgs' = Some({ ca_zones[k] : k \in { j \in 1..Len(ca_zones) :
                                                 Known("EPSG:" \o ca_zones[j]) } })
    /\ stdout' = Append(stdout, "COORDINATE RANGE CHECK")
    /\ pc' = "zone_final"
    /\ UNCHANGED <<ca_zones, returned, results, utm_returned, vNotZone>>

\* Lines 178-201.
ZoneFinal ==
    /\ pc = "zone_final"
    /\ stdout' = Append(stdout,
            IF results # <<>> /\ results[1].distance # 0
               /\ Abs(results[1].distance - 83000) < 5000
            THEN "SOLUTION FOUND" ELSE "No California State Plane zone")
    /\ pc' = "zone_done"
    /\ UNCHANGED <<vZone, vNotZone>>

(***************************************************************************)
(* convert_ifc_to_kml.py, main: the files named on the command line, or    *)
(* the .ifc files of the DATA directory, are converted one after another.  *)
(* Files are numbered in the order of their names.                         *)
(***************************************************************************)
FileName == << "a.ifc", "b.ifc", "c.ifc", "d.ifc", "notes.txt" >>

\* os.path.exists(ifc_file)
FileExists(f) == f # 3

\* f.endswith('.ifc')
IsIfc(f) == f # 5

\* Whether convert_ifc_to_kml(f) raises: b.ifc is a model whose conversion
\* fails (a reference system the projection database does not hold, or a
\* file ifcopenshell cannot read).
ConversionRaises(f) == f = 2

IfcArguments == { a \in SeqsUpTo(1..4, MaxFiles) : a # <<>> }
IfcListings == { l \in SeqsUpTo({1, 2, 4, 5}, MaxFiles) : Distinct(l) }

InitIfcMain ==
    /\ pc = "ifc_main"
    /\ stdout = <<>>
    /\ \/ /\ argv \in IfcArguments
          /\ data_dir_exists = TRUE
          /\ data_dir_listing = <<>>
       \/ /\ argv = <<>>
          /\ data_dir_exists = TRUE
          /\ data_dir_listing \in IfcListings
       \/ /\ argv = <<>>
          /\ data_dir_exists = FALSE
          /\ data_dir_listing = <<>>
    /\ ifc_files = None
    /\ files_done = 0
    /\ kml_files = <<>>
    /\ written = {}
    /\ exit_status = None
    /\ IdleExcept("ifc_main")

\* [x for x in s if IsIfc(x)]
RECURSIVE OnlyIfc(_)
OnlyIfc(s) ==
    IF s = <<>> THEN <<>>
    ELSE IF IsIfc(Head(s)) THEN <<Head(s)>> \o OnlyIfc(Tail(s))
    ELSE OnlyIfc(Tail(s))

\* Lines 457-477.
IfcMainFindFiles ==
    /\ pc = "ifc_main"
    /\ LET found == IF argv # <<>> THEN argv ELSE OnlyIfc(data_dir_listing)
       IN  IF argv = <<>> /\ ~data_dir_exists
           THEN /\ stdout' = Append(stdout, "ERROR: DATA directory not found!")
                /\ exit_status' = Some(1)
                /\ pc' = "exited"
                /\ UNCHANGED ifc_files
           ELSE IF found = <<>>
           THEN /\ stdout' = Append(stdout, "ERROR: No IFC files found!")
                /\ exit_status' = Some(1)
                /\ ifc_files' = Some(found)
                /\ pc' = "exited"
           ELSE /\ stdout' = Append(stdout, "Found IFC file(s) to convert")
                /\ ifc_files' = Some(found)
                /\ pc' = "ifc_files_loop"
                /\ UNCHANGED exit_status
    /\ UNCHANGED <<argv, data_dir_exists, data_dir_listing, files_done, kml_files,
                   written, vNotIfcMain>>

\* the files taken in the order found
SortedFiles_AsFound == ifc_files[1]

\* sorted(ifc_files)
SortedFiles == SortSeq(ifc_files[1], LAMBDA a, b : a < b)

\* Lines 481-492, one iteration.
IfcMainFile ==
    /\ pc = "ifc_files_loop"
    /\ files_done < Len(SortedFiles)
    /\ LET ifc_file == SortedFiles[files_done + 1]
       IN  IF ~FileExists(ifc_file)
           THEN /\ stdout' = Append(stdout, "WARNING: File not found: " \o FileName[ifc_file])
                /\ UNCHANGED <<kml_files, written>>
           ELSE IF ConversionRaises(ifc_file)
           THEN /\ stdout' = Append(stdout, "ERROR processing " \o FileName[ifc_file])
                /\ UNCHANGED <<kml_files, written>>
           ELSE /\ stdout' = Append(stdout, "Created KML file: " \o FileName[ifc_file])
                /\ kml_files' = Append(kml_files, ifc_file)
                /\ written' = written \cup {ifc_file}
    /\ files_done' = files_done + 1
    /\ UNCHANGED <<pc, argv, data_dir_exists, data_dir_listing, ifc_files, exit_status,
                   vNotIfcMain>>

\* Lines 494-498; main returns and the process ends with status 0.
IfcMainSummary ==
    /\ pc = "ifc_files_loop"
    /\ files_done = Len(SortedFiles)
    /\ stdout' = Append(stdout, "Conversion complete!")
    /\ exit_status' = Some(0)
    /\ pc' = "exited"
    /\ UNCHANGED <<argv, data_dir_exists, data_dir_listing, ifc_files, files_done,
                   kml_files, written, vNotIfcMain>>

(***************************************************************************)
(* The two scripts in which one conversion among several can fail.         *)
(***************************************************************************)
InitConversions == InitZone \/ InitIfcMain

NextConversions ==
    \/ ZoneTest
    \/ ZoneSort
    \/ ZoneUtmTest
    \/ ZoneRangeCheck
    \/ ZoneFinal
    \/ IfcMainFindFiles
    \/ IfcMainFile
    \/ IfcMainSummary

SpecConversions == InitConversions /\ [][NextConversions]_vars

\* Every candidate code the loop has reached: a code the registry does not
\* know (once "EPSG:" is put before it) gave (None, None, None) and no entry
\* of results; a code it knows gave a point, a distance and an entry.
ZoneOutcomes ==
    \A k \in 1..Len(returned) :
        LET in_results == \E r \in 1..Len(results) : results[r].epsg = ca_zones[k]
        IN  IF Known("EPSG:" \o ca_zones[k])
            THEN returned[k][1] # None /\ returned[k][3] # None /\ in_results
            ELSE returned[k] = <<None, None, None>> /\ ~in_results

\* C9: a conversion that names a reference system the registry does not
\* know fails alone: it yields the error outcome and no point or distance,
\* and the other conversions of the run (the other candidate zones; the
\* other input files of the IFC converter) are still carried out.
C9_UnknownSystemFailsAlone ==
    /\ pc # "crashed"
    /\ ZoneOutcomes
    /\ pc \in {"zone_utm", "zone_final", "zone_done"} => Len(returned) = Len(ca_zones)
    /\ pc \in {"zone_final", "zone_done"} =>
           /\ Len(utm_returned) = Len(utm_zones)
           /\ trans_wgs[1] = { ca_zones[k] : k \in { j \in 1..Len(ca_zones) :
                                                     Known("EPSG:" \o ca_zones[j]) } }
    /\ (pc = "exited" /\ exit_status = Some(0)) =>
           /\ files_done = Len(ifc_files[1])
           /\ \A k \in 1..Len(ifc_files[1]) :
                 ifc_files[1][k] \in written
                     <=> (FileExists(ifc_files[1][k]) /\ ~ConversionRaises(ifc_files[1][k]))

\* An unknown code was tried before a known one, and the known one still
\* got its result.
C9_Witness ==
    /\ pc = "zone_done"
    /\ Len(ca_zones) = 3
    /\ ~Known("EPSG:" \o ca_zones[1])
    /\ Known("EPSG:" \o ca_zones[2])
    /\ returned[1] = <<None, None, None>>
    /\ Len(results) >= 1

(***************************************************************************)
(* convert_control_points_to_kml.read_control_points.  A row is its number *)
(* of columns, the text of column 1 and the cells of columns 3, 4 and 5;   *)
(* a cell is <<number>> when float() accepts its text and None when float  *)
(* raises ValueError.                                                      *)
(***************************************************************************)
Row(n, name, northing, easting, elevation) ==
    [columns |-> n, name |-> name, northing |-> northing, easting |-> easting,
     elevation |-> elevation]

CsvHeader == Row(6, "Station", None, None, None)

CsvRows ==
    { Row(6, "CM 10.90", Some(95), Some(120), Some(7)),
      Row(7, "CM 10.99", Some(100), Some(130), Some(9)),
      Row(5, "CM 11.05", Some(104), Some(141), None),
      Row(6, "CM 11.10", None, Some(132), Some(8)),
      Row(6, "CM 11.20", Some(89), Some(141), None) }

\* A row read_control_points can turn into a control point.
WellFormedRow(r) ==
    r.columns >= 6 /\ r.northing # None /\ r.easting # None /\ r.elevation # None

ControlPoint(r) ==
    [name |-> r.name, easting |-> r.easting[1], northing |-> r.northing[1],
     elevation |-> r.elevation[1]]

InitCsv ==
    /\ pc = "read_control_points"
    /\ stdout = <<>>
    /\ csv_lines \in {<<>>} \cup { <<CsvHeader>> \o rows : rows \in SeqsUpTo(CsvRows, MaxRows) }
    /\ rows_read = 0
    /\ control_points = <<>>
    /\ IdleCsvKml
    /\ IdleExcept("csv")

\* Line 33: next(reader); a file with no row at all raises StopIteration.
ReadHeader ==
    /\ pc = "read_control_points"
    /\ IF csv_lines = <<>>
       THEN pc' = "crashed" /\ stdout' = Append(stdout, "StopIteration") /\ UNCHANGED rows_read
       ELSE pc' = "rows_loop" /\ rows_read' = 1 /\ UNCHANGED stdout
    /\ UNCHANGED <<csv_lines, control_points, vNotCsv>>

\* Lines 35-51, one iteration.
ReadRow ==
    /\ pc = "rows_loop"
    /\ rows_read < Len(csv_lines)
    /\ LET row == csv_lines[rows_read + 1]
       IN  IF row.columns >= 6
           THEN IF row.northing # None /\ row.easting # None /\ row.elevation # None
                THEN /\ control_points' = Append(control_points, ControlPoint(row))
                     /\ UNCHANGED stdout
                ELSE /\ stdout' = Append(stdout, "Warning: Skipping row due to error")
                     /\ UNCHANGED control_points
           ELSE UNCHANGED <<control_points, stdout>>
    /\ rows_read' = rows_read + 1
    /\ UNCHANGED <<pc, csv_lines, vNotCsv>>

\* Line 53.
ReadReturn ==
    /\ pc = "rows_loop"
    /\ rows_read = Len(csv_lines)
    /\ pc' = "read_done"
    /\ UNCHANGED <<stdout, vCsv, vNotCsv>>

(***************************************************************************)
(* convert_ifc_to_kml.extract_geometry_from_ifc, the points taken from     *)
(* "Start Point" properties.  A property set is the cells of its Start     *)
(* Point text split at the commas, and the first related object of every   *)
(* IfcRelDefinesByProperties that refers to the set.                       *)
(***************************************************************************)
IfcObject(station, feature_name, name) ==
    [Station |-> station, FeatureName |-> feature_name, Name |-> name,
     is_a |-> "IfcBuildingElementProxy"]

IfcObjects ==
    { IfcObject("0+032.67", "RW1", "Wall"), IfcObject("", "RW1", "Wall"),
      IfcObject("", "", "Wall"), IfcObject("", "", "") }

StartPointTexts ==
    { <<Some(40), Some(31), Some(0)>>, <<Some(44), Some(38), Some(2)>>,
      <<Some(40), Some(31)>>, <<Some(40), None, Some(0)>>,
      <<Some(40), Some(31), Some(0), Some(5)>> }

PropertySets ==
    { [start_point |-> t, related |-> <<o>>] : t \in StartPointTexts, o \in IfcObjects }
        \cup { [start_point |-> <<Some(44), Some(38), Some(2)>>, related |-> <<>>] }

InitExtract ==
    /\ pc = "extract_geometry_from_ifc"
    /\ stdout = <<>>
    /\ property_sets \in SeqsUpTo(PropertySets, MaxPsets)
    /\ psets_done = 0
    /\ ifc_points = <<>>
    /\ products_examined = FALSE
    /\ geometry_data = None
    /\ IdleIfcKml
    /\ IdleExcept("extract")

\* the Feature Name taken before the Station
PointName_FeatureNameFirst(obj) ==
    IF obj.FeatureName # "" THEN obj.FeatureName
    ELSE IF obj.Station # "" THEN "RW Sta " \o obj.Station
    ELSE IF obj.Name # "" THEN obj.Name
    ELSE obj.is_a

\* Lines 110-117.
PointName(obj) ==
    IF obj.Station # "" THEN "RW Sta " \o obj.Station
    ELSE IF obj.FeatureName # "" THEN obj.FeatureName
    ELSE IF obj.Name # "" THEN obj.Name
    ELSE obj.is_a

\* Lines 119-125.
PropertyPoint(cells, obj) ==
    [name |-> PointName(obj), type |-> obj.is_a,
     coords |-> <<cells[1][1], cells[2][1], cells[3][1]>>,
     station |-> obj.Station]

RECURSIVE PropertyPoints(_, _)
PropertyPoints(cells, related) ==
    IF related = <<>> THEN <<>>
    ELSE <<PropertyPoint(cells, Head(related))>> \o PropertyPoints(cells, Tail(related))

\* Line 97: every cell is parsed by float(); one that is no number raises.
AllNumbers(cells) == \A k \in 1..Len(cells) : cells[k] # None

\* Lines 89-128, one property set with a Start Point: a text that does not
\* parse, or has fewer than three numbers, adds nothing and prints nothing.
ExtractStartPoint ==
    /\ pc = "extract_geometry_from_ifc"
    /\ psets_done < Len(property_sets)
    /\ LET pset == property_sets[psets_done + 1]
       IN  ifc_points' =
               IF AllNumbers(pset.start_point) /\ Len(pset.start_point) >= 3
               THEN ifc_points \o PropertyPoints(pset.start_point, pset.related)
               ELSE ifc_points
    /\ psets_done' = psets_done + 1
    /\ UNCHANGED <<pc, stdout, property_sets, products_examined, geometry_data, vNotExtract>>

\* the products looked at whatever the properties gave
EarlyReturn_Never(pts) == FALSE

\* Line 131: if points:
EarlyReturn(pts) == pts # <<>>

\* Lines 130-142: with a point from the properties the function returns at
\* once; otherwise it goes on to the geometry of the products.
ExtractReturn ==
    /\ pc = "extract_geometry_from_ifc"
    /\ psets_done = Len(property_sets)
    /\ IF EarlyReturn(ifc_points)
       THEN /\ geometry_data' = Some([lines |-> ifc_lines, points |-> ifc_points,
                                      polygons |-> ifc_polygons])
            /\ pc' = "extract_done"
            /\ UNCHANGED products_examined
       ELSE /\ products_examined' = TRUE
            /\ pc' = "products_loop"
            /\ UNCHANGED geometry_data
    /\ UNCHANGED <<stdout, property_sets, psets_done, ifc_points, vNotExtract>>

\* Lines 257-262: the return after the loop over the products.
ExtractProductsReturn ==
    /\ pc = "products_loop"
    /\ products_done = Len(ifc_products)
    /\ geometry_data' = Some([lines |-> ifc_lines, points |-> ifc_points,
                              polygons |-> ifc_polygons])
    /\ pc' = "extract_done"
    /\ UNCHANGED <<stdout, property_sets, psets_done, ifc_points, products_examined,
                   vIfcKml, vNotIfcConversion>>

InitParse == InitCsv \/ InitExtract

NextParse ==
    \/ ReadHeader
    \/ ReadRow
    \/ ReadReturn
    \/ ExtractStartPoint
    \/ ExtractReturn
    \/ ExtractProductsReturn

SpecParse == InitParse /\ [][NextParse]_vars

RECURSIVE WellFormedRows(_)
WellFormedRows(rows) ==
    IF rows = <<>> THEN <<>>
    ELSE IF WellFormedRow(Head(rows))
         THEN <<ControlPoint(Head(rows))>> \o WellFormedRows(Tail(rows))
         ELSE WellFormedRows(Tail(rows))

CountIf(s, P(_)) == Cardinality({ k \in 1..Len(s) : P(s[k]) })

IsWarning(line) == line = "Warning: Skipping row due to error"
               \/ line = "Warning: Skipping Start Point"

\* A Start Point text of exactly three numbers.
WellFormedStartPoint(pset) == Len(pset.start_point) = 3 /\ AllNumbers(pset.start_point)

\* C10: every malformed record (a CSV row of fewer than six columns or with
\* a non-numeric northing, easting or elevation; a Start Point that is not
\* three comma-separated numbers) is skipped with a warning, and the
\* well-formed records before and after it are returned in input order.
C10_MalformedSkippedWithWarning ==
    /\ pc = "read_done" =>
          /\ control_points = WellFormedRows(Tail(csv_lines))
          /\ CountIf(stdout, LAMBDA l : IsWarning(l))
                 = CountIf(Tail(csv_lines), LAMBDA r : ~WellFormedRow(r))
    /\ pc = "extract_done" =>
          CountIf(stdout, LAMBDA l : IsWarning(l))
              = CountIf(property_sets, LAMBDA q : ~WellFormedStartPoint(q))

(***************************************************************************)
(* convert_xml_to_kml.py, main: every .xml file of the DATA directory is   *)
(* converted; the command line is not read.  Files are numbered in the     *)
(* order of their names; file 5 is one whose name has another extension.   *)
(***************************************************************************)
\* f.endswith('.xml')
IsXml(f) == f # 5

\* Whether convert_landxml_to_kml(f) raises: file 2 holds no Alignment
\* (ValueError, line 80) or is not well-formed XML (ET.parse).
XmlConversionRaises(f) == f = 2

XmlListings == { l \in SeqsUpTo({1, 2, 4, 5}, MaxFiles) : Distinct(l) }

InitXmlMain ==
    /\ pc = "xml_main"
    /\ stdout = <<>>
    /\ \/ /\ xml_dir_exists = TRUE
          /\ xml_dir_listing \in XmlListings
       \/ /\ xml_dir_exists = FALSE
          /\ xml_dir_listing = <<>>
    /\ xml_files = None
    /\ xml_files_done = 0
    /\ xml_kml_files = <<>>
    /\ xml_written = {}
    /\ xml_exit_status = None
    /\ IdleExcept("xml_main")

\* The listing with every file kept, whatever its extension.
OnlyXml_AnyExtension(s) == s

\* [f for f in s if f.endswith('.xml')]
OnlyXml(s) == SelectSeq(s, LAMBDA f : IsXml(f))

\* Lines 285-299.
XmlMainFindFiles ==
    /\ pc = "xml_main"
    /\ IF ~xml_dir_exists
       THEN /\ stdout' = Append(stdout, "ERROR: DATA directory not found!")
            /\ xml_exit_status' = Some(1)
            /\ pc' = "xml_exited"
            /\ UNCHANGED xml_files
       ELSE IF OnlyXml(xml_dir_listing) = <<>>
       THEN /\ stdout' = Append(stdout, "ERROR: No XML files found in DATA directory!")
            /\ xml_exit_status' = Some(1)
            /\ xml_files' = Some(OnlyXml(xml_dir_listing))
            /\ pc' = "xml_exited"
       ELSE /\ stdout' = Append(stdout, "Found XML file(s) to convert")
            /\ xml_files' = Some(OnlyXml(xml_dir_listing))
            /\ pc' = "xml_files_loop"
            /\ UNCHANGED xml_exit_status
    /\ UNCHANGED <<xml_dir_exists, xml_dir_listing, xml_files_done, xml_kml_files,
                   xml_written, vNotXmlMain>>

\* sorted(xml_files)
SortedXmlFiles == SortSeq(xml_files[1], LAMBDA a, b : a < b)

\* Lines 303-311, one iteration.
XmlMainFile ==
    /\ pc = "xml_files_loop"
    /\ xml_files_done < Len(SortedXmlFiles)
    /\ LET xml_file == SortedXmlFiles[xml_files_done + 1]
       IN  IF XmlConversionRaises(xml_file)
           THEN /\ stdout' = Append(stdout, "ERROR processing " \o ToString(xml_file))
                /\ UNCHANGED <<xml_kml_files, xml_written>>
           ELSE /\ stdout' = Append(stdout, "Created KML file: " \o ToString(xml_file))
                /\ xml_kml_files' = Append(xml_kml_files, xml_file)
                /\ xml_written' = xml_written \cup {xml_file}
    /\ xml_files_done' = xml_files_done + 1
    /\ UNCHANGED <<pc, xml_dir_exists, xml_dir_listing, xml_files, xml_exit_status,
                   vNotXmlMain>>

\* Lines 313-317; main returns and the process ends with status 0.
XmlMainSummary ==
    /\ pc = "xml_files_loop"
    /\ xml_files_done = Len(SortedXmlFiles)
    /\ stdout' = Append(stdout, "Conversion complete!")
    /\ xml_exit_status' = Some(0)
    /\ pc' = "xml_exited"
    /\ UNCHANGED <<xml_dir_exists, xml_dir_listing, xml_files, xml_files_done,
                   xml_kml_files, xml_written, vNotXmlMain>>

(***************************************************************************)
(* convert_dxf_to_kml.py, __main__: the files named on the command line,   *)
(* in the order given, or the files glob finds in the DATA directory.      *)
(***************************************************************************)
\* Whether convert_dxf_to_kml(f) raises: file 2 is one ezdxf.readfile
\* (line 92) cannot read.
DxfConversionRaises(f) == f = 2

DxfArguments == { a \in SeqsUpTo(1..4, MaxFiles) : a # <<>> }
DxfGlobs == { l \in SeqsUpTo({1, 2, 4}, MaxFiles) : Distinct(l) }

InitDxfMain ==
    /\ pc = "dxf_main"
    /\ stdout = <<>>
    /\ \/ dxf_argv \in DxfArguments /\ dxf_glob = <<>>
       \/ dxf_argv = <<>> /\ dxf_glob \in DxfGlobs
    /\ dxf_files_done = 0
    /\ dxf_written = {}
    /\ dxf_exit_status = None
    /\ IdleExcept("dxf_main")

\* Lines 329 and 336-345.
DxfMainBegin ==
    /\ pc = "dxf_main"
    /\ IF dxf_argv # <<>>
       THEN pc' = "dxf_argv_loop" /\ UNCHANGED <<stdout, dxf_exit_status>>
       ELSE IF dxf_glob = <<>>
       THEN /\ stdout' = Append(stdout, "No DXF files found in DATA directory")
            /\ dxf_exit_status' = Some(1)
            /\ pc' = "dxf_exited"
       ELSE /\ stdout' = Append(stdout, "Found DXF files to convert")
            /\ pc' = "dxf_glob_loop"
            /\ UNCHANGED dxf_exit_status
    /\ UNCHANGED <<dxf_argv, dxf_glob, dxf_files_done, dxf_written, vNotDxfMain>>

\* convert_dxf_to_kml(dxf_file) called with nothing around it: an exception
\* it raises ends the process with a traceback and exit status 1.
DxfConvertOrDie(dxf_file) ==
    IF DxfConversionRaises(dxf_file)
    THEN /\ stdout' = Append(stdout, "Traceback (most recent call last)")
         /\ dxf_exit_status' = Some(1)
         /\ pc' = "dxf_exited"
         /\ UNCHANGED dxf_written
    ELSE /\ stdout' = Append(stdout, "Created KML file: " \o ToString(dxf_file))
         /\ dxf_written' = dxf_written \cup {dxf_file}
         /\ UNCHANGED <<pc, dxf_exit_status>>

\* Lines 331-335, one iteration.
DxfMainArgvFile ==
    /\ pc = "dxf_argv_loop"
    /\ dxf_files_done < Len(dxf_argv)
    /\ LET dxf_file == dxf_argv[dxf_files_done + 1]
       IN  IF FileExists(dxf_file)
           THEN DxfConvertOrDie(dxf_file)
           ELSE /\ stdout' = Append(stdout, "Error: File not found: " \o ToString(dxf_file))
                /\ UNCHANGED <<pc, dxf_written, dxf_exit_status>>
    /\ dxf_files_done' = dxf_files_done + 1
    /\ UNCHANGED <<dxf_argv, dxf_glob, vNotDxfMain>>

\* The loop of line 331 is over: the script ends, exit status 0.
DxfMainArgvEnd ==
    /\ pc = "dxf_argv_loop"
    /\ dxf_files_done = Len(dxf_argv)
    /\ dxf_exit_status' = Some(0)
    /\ pc' = "dxf_exited"
    /\ UNCHANGED <<stdout, dxf_argv, dxf_glob, dxf_files_done, dxf_written, vNotDxfMain>>

\* sorted(dxf_files)
SortedDxfFiles == SortSeq(dxf_glob, LAMBDA a, b : a < b)

\* Lines 347-349, one iteration.
DxfMainGlobFile ==
    /\ pc = "dxf_glob_loop"
    /\ dxf_files_done < Len(SortedDxfFiles)
    /\ DxfConvertOrDie(SortedDxfFiles[dxf_files_done + 1])
    /\ dxf_files_done' = dxf_files_done + 1
    /\ UNCHANGED <<dxf_argv, dxf_glob, vNotDxfMain>>

\* Lines 351-352.
DxfMainGlobEnd ==
    /\ pc = "dxf_glob_loop"
    /\ dxf_files_done = Len(SortedDxfFiles)
    /\ stdout' = Append(stdout, "All conversions complete!")
    /\ dxf_exit_status' = Some(0)
    /\ pc' = "dxf_exited"
    /\ UNCHANGED <<dxf_argv, dxf_glob, dxf_files_done, dxf_written, vNotDxfMain>>

(***************************************************************************)
(* convert_control_points_to_kml.py, main.  Files 1 to 4 are the entries   *)
(* of possible_locations, files 5 to 8 are paths a user can name.          *)
(***************************************************************************)
\* os.path.exists(csv_file): file 6 does not exist.
CsvFileExists(f) == f \in csv_existing \/ f \in {5, 7, 8}

\* What convert_control_points_to_kml(f) does: file 7 holds no valid row
\* (None is returned, line 161), reading file 8 raises.
CsvConversion(f) == CASE f = 7 -> "no_points" [] f = 8 -> "raises" [] OTHER -> "ok"

CsvArguments == SeqsUpTo(5..8, MaxFiles)

InitCsvMain ==
    /\ pc = "csv_main"
    /\ stdout = <<>>
    /\ csv_argv \in CsvArguments
    /\ csv_existing \in SUBSET (1..4)
    /\ csv_file = None
    /\ csv_written = {}
    /\ csv_exit_status = None
    /\ IdleExcept("csv_main")

\* Lines 180-188: the first of possible_locations that exists, replaced by
\* the first command-line argument when there is one.
CsvChosenFile ==
    IF csv_argv # <<>> THEN Some(csv_argv[1])
    ELSE IF csv_existing = {} THEN None
    ELSE Some(CHOOSE l \in csv_existing : \A m \in csv_existing : l <= m)

\* Lines 173-199.
CsvMainFindFile ==
    /\ pc = "csv_main"
    /\ csv_file' = CsvChosenFile
    /\ IF CsvChosenFile = None \/ ~CsvFileExists(CsvChosenFile[1])
       THEN /\ stdout' = Append(stdout, "ERROR: Control Points.csv file not found!")
            /\ csv_exit_status' = Some(1)
            /\ pc' = "csv_exited"
       ELSE /\ stdout' = Append(stdout, "Control Points CSV to KML Converter")
            /\ pc' = "csv_convert"
            /\ UNCHANGED csv_exit_status
    /\ UNCHANGED <<csv_argv, csv_existing, csv_written, vNotCsvMain>>

\* Lines 201-213.
CsvMainConvert ==
    /\ pc = "csv_convert"
    /\ LET outcome == CsvConversion(csv_file[1])
       IN  /\ stdout' = Append(stdout,
                  CASE outcome = "ok" -> "Conversion complete!"
                    [] outcome = "no_points" -> "ERROR: No valid control points found in CSV file!"
                    [] OTHER -> "ERROR: exception")
           /\ csv_written' = IF outcome = "ok" THEN {csv_file[1]} ELSE {}
           /\ csv_exit_status' = IF outcome = "raises" THEN Some(1) ELSE Some(0)
    /\ pc' = "csv_exited"
    /\ UNCHANGED <<csv_argv, csv_existing, csv_file, vNotCsvMain>>

(***************************************************************************)
(* The four converters as command-line programs.                           *)
(***************************************************************************)
InitMains == InitIfcMain \/ InitXmlMain \/ InitDxfMain \/ InitCsvMain

NextMains ==
    \/ IfcMainFindFiles
    \/ IfcMainFile
    \/ IfcMainSummary
    \/ XmlMainFindFiles
    \/ XmlMainFile
    \/ XmlMainSummary
    \/ DxfMainBegin
    \/ DxfMainArgvFile
    \/ DxfMainArgvEnd
    \/ DxfMainGlobFile
    \/ DxfMainGlobEnd
    \/ CsvMainFindFile
    \/ CsvMainConvert

SpecMains == InitMains /\ [][NextMains]_vars

(***************************************************************************)
(* Claims about the converters as command-line programs.                   *)
(***************************************************************************)
\* The lines with which the converters say that they found no input.
NoInputMessages ==
    { "ERROR: DATA directory not found!", "ERROR: No IFC files found!",
      "ERROR: No XML files found in DATA directory!",
      "No DXF files found in DATA directory",
      "ERROR: Control Points.csv file not found!" }

ErrorPrinted == \E k \in 1..Len(stdout) : stdout[k] \in NoInputMessages

\* C11: each converter (IFC, control points, LandXML, DXF), run with no file
\* argument when no input file can be discovered (no data directory, or no
\* file of the right kind in it), prints an error message, ends with a
\* non-zero exit status and writes no KML file.
C11_NoInputExitsNonZero ==
    /\ (argv = <<>> /\ \A k \in 1..Len(data_dir_listing) : ~IsIfc(data_dir_listing[k]))
           => /\ written = {}
              /\ pc = "exited" => (ErrorPrinted /\ exit_status = Some(1))
    /\ (\A k \in 1..Len(xml_dir_listing) : ~IsXml(xml_dir_listing[k]))
           => /\ xml_written = {}
              /\ pc = "xml_exited" => (ErrorPrinted /\ xml_exit_status = Some(1))
    /\ (dxf_argv = <<>> /\ dxf_glob = <<>>)
           => /\ dxf_written = {}
              /\ pc = "dxf_exited" => (ErrorPrinted /\ dxf_exit_status = Some(1))
    /\ (csv_argv = <<>> /\ csv_existing = {})
           => /\ csv_written = {}
              /\ pc = "csv_exited" => (ErrorPrinted /\ csv_exit_status = Some(1))

\* The LandXML converter has ended over a DATA directory that exists and
\* holds one file, of another extension.
C11_Witness ==
    /\ pc = "xml_exited"
    /\ xml_dir_exists
    /\ xml_dir_listing = <<5>>
    /\ xml_exit_status = Some(1)
    /\ xml_written = {}

\* C12: when a path given on the command line does not exist, the converter
\* reports it and the process ends with a non-zero exit status: the IFC and
\* the DXF converter whether or not other given paths exist, the control
\* point converter for the path it is given.
C12_MissingFileNonZeroExit ==
    /\ (pc = "exited" /\ \E k \in 1..Len(argv) : ~FileExists(argv[k]))
           => /\ exit_status # Some(0)
              /\ \E k \in 1..Len(stdout) : stdout[k] = "WARNING: File not found: c.ifc"
    /\ (pc = "dxf_exited" /\ \E k \in 1..Len(dxf_argv) : ~FileExists(dxf_argv[k]))
           => dxf_exit_status # Some(0)
    /\ (pc = "csv_exited" /\ csv_argv # <<>> /\ ~CsvFileExists(csv_argv[1]))
           => csv_exit_status # Some(0) /\ ErrorPrinted

\* The files of a sequence whose conversion succeeds, in the same order.
Succeeding(files, Fails(_)) == SelectSeq(files, LAMBDA f : FileExists(f) /\ ~Fails(f))

\* C20: in batch mode the IFC, the LandXML and the DXF converter are
\* best-effort: when the conversion of one input file fails the remaining
\* files are still converted, and the summary lists exactly the files whose
\* conversion succeeded.
C20_BatchBestEffort ==
    /\ (pc = "exited" /\ exit_status = Some(0))
           => /\ kml_files = Succeeding(SortedFiles, ConversionRaises)
              /\ written = Range(Succeeding(SortedFiles, ConversionRaises))
    /\ (pc = "xml_exited" /\ xml_files # None /\ xml_files # Some(<<>>))
           => /\ xml_kml_files = Succeeding(SortedXmlFiles, XmlConversionRaises)
              /\ xml_written = Range(Succeeding(SortedXmlFiles, XmlConversionRaises))
    /\ pc = "dxf_exited"
           => dxf_written = Range(Succeeding(dxf_argv \o dxf_glob, DxfConversionRaises))

(***************************************************************************)
(* convert_xml_to_kml.py, interpolate_arc (lines 18-57).                   *)
(* Angles are whole degrees and lengths whole units; the sine of a whole   *)
(* degree is held in ten-thousandths.  The sweeps drawn below are          *)
(* multiples of 60 degrees, so that delta * i / num_points is a whole      *)
(* number of degrees for every num_points up to 6.                         *)
(***************************************************************************)
MaxArcPoints == 3

SinTable ==
    <<0, 175, 349, 523, 698, 872, 1045, 1219, 1392, 1564, 1736, 1908, 2079,
      2250, 2419, 2588, 2756, 2924, 3090, 3256, 3420, 3584, 3746, 3907,
      4067, 4226, 4384, 4540, 4695, 4848, 5000, 5150, 5299, 5446, 5592,
      5736, 5878, 6018, 6157, 6293, 6428, 6561, 6691, 6820, 6947, 7071,
      7193, 7314, 7431, 7547, 7660, 7771, 7880, 7986, 8090, 8192, 8290,
      8387, 8480, 8572, 8660, 8746, 8829, 8910, 8988, 9063, 9135, 9205,
      9272, 9336, 9397, 9455, 9511, 9563, 9613, 9659, 9703, 9744, 9781,
      9816, 9848, 9877, 9903, 9925, 9945, 9962, 9976, 9986, 9994, 9998,
      10000>>

\* math.sin of a whole number of degrees, in ten-thousandths
math_sin(a) ==
    LET r == a % 360
    IN  IF r <= 90 THEN SinTable[r + 1]
        ELSE IF r <= 180 THEN SinTable[(180 - r) + 1]
        ELSE IF r <= 270 THEN -SinTable[(r - 180) + 1]
        ELSE -SinTable[(360 - r) + 1]

math_cos(a) == math_sin(a + 90)

\* math.atan2(y, x) to the nearest whole degree, in -180..180
math_atan2(y, x) ==
    IF x = 0 /\ y = 0 THEN 0
    ELSE LET dot(a) == Abs(x) * SinTable[(90 - a) + 1] + Abs(y) * SinTable[a + 1]
             a == CHOOSE c \in 0..90 : \A b \in 0..90 : dot(c) >= dot(b)
         IN  IF x >= 0 THEN (IF y >= 0 THEN a ELSE -a)
             ELSE (IF y >= 0 THEN 180 - a ELSE a - 180)

\* radius * t / 10000 rounded to the nearest unit, t in ten-thousandths
Scaled(radius, t) ==
    IF t >= 0 THEN (radius * t + 5000) \div 10000
    ELSE -((radius * (-t) + 5000) \div 10000)

\* lines 38-42: the sweep, negated for a clockwise curve only
SignedDelta_Unsigned(delta, rotation) == delta
SignedDelta(delta, rotation) ==
    IF rotation = Some("cw") THEN -delta ELSE delta

\* the arc cut into num_points + 1 parts, so that its last point falls short
ArcPoint_StopsShort(center, radius, from_angle, sweep, num_points, k) ==
    LET angle == from_angle + (sweep * k) \div (num_points + 1)
    IN  <<center[1] + Scaled(radius, math_cos(angle)),
          center[2] + Scaled(radius, math_sin(angle))>>

\* lines 48-54: point i of the arc
ArcPoint(center, radius, from_angle, sweep, num_points, k) ==
    LET angle == from_angle + (sweep * k) \div num_points
    IN  <<center[1] + Scaled(radius, math_cos(angle)),
          center[2] + Scaled(radius, math_sin(angle))>>

interpolate_arc(start, center, radius, delta, rotation, num_points) ==
    LET from_angle == math_atan2(start[2] - center[2], start[1] - center[1])
        sweep == SignedDelta(delta, rotation)
    IN  [k \in 1..(num_points + 1) |->
            ArcPoint(center, radius, from_angle, sweep, num_points, k - 1)]

ArcCenters == {<<0, 0>>, <<500, -300>>}
ArcStartOffsets == {<<1000, 0>>, <<0, 1000>>, <<-707, 707>>, <<500, -866>>, <<-3, -4>>}
ArcRadii == {1000, 2500}
ArcDeltas == {60, 120, 180}
ArcRotations == {Some("cw"), Some("ccw"), None}

InitArc ==
    /\ pc = "arc"
    /\ stdout = <<>>
    /\ \E c \in ArcCenters, o \in ArcStartOffsets, r \in ArcRadii,
          d \in ArcDeltas, rot \in ArcRotations, n \in 0..MaxArcPoints :
          arc_args = [center |-> c, start |-> <<c[1] + o[1], c[2] + o[2]>>,
                      radius |-> r, delta |-> d, rotation |-> rot,
                      num_points |-> n]
    /\ start_angle = None
    /\ delta_rad = None
    /\ arc_i = 0
    /\ arc_points = <<>>
    /\ IdleExcept("arc")

\* lines 35-45
ArcBegin ==
    /\ pc = "arc"
    /\ start_angle' = Some(math_atan2(arc_args.start[2] - arc_args.center[2],
                                      arc_args.start[1] - arc_args.center[1]))
    /\ delta_rad' = Some(SignedDelta(arc_args.delta, arc_args.rotation))
    /\ pc' = "arc_loop"
    /\ UNCHANGED <<stdout, arc_args, arc_i, arc_points, vNotArc>>

\* lines 46-55, one iteration
ArcStep ==
    /\ pc = "arc_loop"
    /\ arc_i <= arc_args.num_points
    /\ arc_args.num_points # 0
    /\ arc_points' = Append(arc_points,
           ArcPoint(arc_args.center, arc_args.radius, start_angle[1],
                    delta_rad[1], arc_args.num_points, arc_i))
    /\ arc_i' = arc_i + 1
    /\ UNCHANGED <<pc, stdout, arc_args, start_angle, delta_rad, vNotArc>>

\* line 48: i / num_points with num_points = 0 raises ZeroDivisionError
ArcDivisionByZero ==
    /\ pc = "arc_loop"
    /\ arc_args.num_points = 0
    /\ pc' = "arc_raised"
    /\ UNCHANGED <<stdout, vArc, vNotArc>>

\* line 57
ArcReturn ==
    /\ pc = "arc_loop"
    /\ arc_i > arc_args.num_points
    /\ pc' = "arc_returned"
    /\ UNCHANGED <<stdout, vArc, vNotArc>>

NextArc == ArcBegin \/ ArcStep \/ ArcDivisionByZero \/ ArcReturn

SpecArc == InitArc /\ [][NextArc]_vars

DistanceSquared(p, q) == (p[1] - q[1]) * (p[1] - q[1]) + (p[2] - q[2]) * (p[2] - q[2])

\* the angle the claim gives point k, from the arguments alone
ExpectedAngle(k) ==
    LET from_angle == math_atan2(arc_args.start[2] - arc_args.center[2],
                                 arc_args.start[1] - arc_args.center[1])
        sign == IF arc_args.rotation = Some("cw") THEN -1 ELSE 1
    IN  from_angle + (sign * arc_args.delta * k) \div arc_args.num_points

\* C15: a call of interpolate_arc with num_points >= 1 returns exactly
\* num_points + 1 points; each lies at distance radius from the center (to
\* within one unit of rounding), and point k lies in the direction
\* start_angle + sign * delta * k / num_points from the center, where
\* start_angle is the direction from the center to the start point and sign
\* is -1 for rotation 'cw' and +1 for 'ccw' and for a missing rotation.
C15_ArcPoints ==
    pc = "arc_returned" =>
        /\ Len(arc_points) = arc_args.num_points + 1
        /\ \A k \in 0..arc_args.num_points :
              LET p == arc_points[k + 1]
                  d2 == DistanceSquared(p, arc_args.center)
                  r == arc_args.radius
              IN  /\ (r - 1) * (r - 1) <= d2
                  /\ d2 <= (r + 1) * (r + 1)
                  /\ (math_atan2(p[2] - arc_args.center[2],
                                 p[1] - arc_args.center[1])
                        - ExpectedAngle(k)) % 360 = 0

C15_Witness ==
    /\ pc = "arc_returned"
    /\ arc_args.rotation = None
    /\ arc_args.num_points = 3
    /\ arc_args.delta = 120
    /\ arc_args.radius = 2500
    /\ Len(arc_points) = 4
    /\ arc_points[1] # arc_points[4]

(***************************************************************************)
(* convert_xml_to_kml.py, parse_landxml_alignment (lines 60-173).          *)
(* An element of CoordGeom is a record: its tag, the split text of its     *)
(* Start, End and Center children (None for a missing child) and its       *)
(* radius, delta and rot attributes (None for a missing attribute).        *)
(***************************************************************************)
MaxElements == 3
ArcPoints == 50

Element(tag, start, end, center, radius, delta, rot) ==
    [tag |-> tag, Start |-> start, End |-> end, Center |-> center,
     radius |-> radius, delta |-> delta, rot |-> rot]

\* the texts are "<northing> <easting>"
CoordGeomElements ==
    { Element("Line", Some(<<2000, 100>>), Some(<<2000, 1100>>), None, None, None, None),
      Element("Line", Some(<<3174, 2085>>), Some(<<4500, 2100>>), None, None, None, None),
      Element("Line", Some(<<4500, 2100>>), None, None, None, None, None),
      Element("Curve", Some(<<2000, 1100>>), Some(<<3174, 2085>>), Some(<<3000, 1100>>),
              Some(1000), Some(100), Some("ccw")),
      Element("Curve", Some(<<4500, 2100>>), Some(<<5266, 2457>>), Some(<<4500, 3100>>),
              Some(1000), Some(50), Some("cw")),
      Element("Curve", Some(<<5266, 2457>>), Some(<<6000, 3500>>), None,
              Some(1000), None, None) }

InitLandXml ==
    /\ pc = "landxml"
    /\ stdout = <<>>
    /\ coord_geom \in SeqsUpTo(CoordGeomElements, MaxElements)
    /\ lines_done = 0
    /\ curves_done = 0
    /\ coord_points = <<>>
    /\ unique_points = None
    /\ IdleXmlKml
    /\ IdleExcept("landxml")

\* coord_geom.findall('landxml:Line', ns), coord_geom.findall('landxml:Curve', ns)
findall(geom, tag) == SelectSeq(geom, LAMBDA el : el.tag = tag)

\* lines 100, 107, 123-124, 128-129, 133-134, 156, 161
SwapAxes_Kept(coords) == <<coords[1], coords[2]>>
SwapAxes(coords) == <<coords[2], coords[1]>>

\* lines 95-100 and 153-156, 102-107 and 158-161: one child's point, if any
ChildPoint(child) ==
    IF child # None /\ Len(child[1]) >= 2 THEN <<SwapAxes(child[1])>> ELSE <<>>

StartAndEnd(el) == ChildPoint(el.Start) \o ChildPoint(el.End)

\* line 120
CurveIsComplete(curve) ==
    /\ curve.Start # None
    /\ curve.End # None
    /\ curve.Center # None
    /\ curve.radius # None
    /\ curve.delta # None

\* lines 120-161
CurvePoints(curve) ==
    IF CurveIsComplete(curve)
    THEN interpolate_arc(SwapAxes(curve.Start[1]), SwapAxes(curve.Center[1]),
                         curve.radius[1], curve.delta[1], curve.rot, ArcPoints)
    ELSE StartAndEnd(curve)

\* lines 91-107, one Line
ParseLine ==
    /\ pc = "landxml"
    /\ lines_done < Len(findall(coord_geom, "Line"))
    /\ coord_points' = coord_points \o StartAndEnd(findall(coord_geom, "Line")[lines_done + 1])
    /\ lines_done' = lines_done + 1
    /\ UNCHANGED <<pc, stdout, coord_geom, curves_done, unique_points, vNotLandXml>>

\* lines 110-161, one Curve; the loop starts when the loop over Lines has ended
ParseCurve ==
    /\ pc = "landxml"
    /\ lines_done = Len(findall(coord_geom, "Line"))
    /\ curves_done < Len(findall(coord_geom, "Curve"))
    /\ coord_points' = coord_points \o CurvePoints(findall(coord_geom, "Curve")[curves_done + 1])
    /\ curves_done' = curves_done + 1
    /\ UNCHANGED <<pc, stdout, coord_geom, lines_done, unique_points, vNotLandXml>>

\* the list left as it is
RemoveConsecutiveDuplicates_Kept(s) == s

\* lines 164-167: a point is appended unless it equals unique_points[-1],
\* and unique_points[-1] always equals the point before it in coord_points
RemoveConsecutiveDuplicates(s) ==
    LET kept == SelectSeq([k \in 1..Len(s) |-> k],
                          LAMBDA k : k = 1 \/ s[k] # s[k - 1])
    IN  [j \in 1..Len(kept) |-> s[kept[j]]]

\* lines 163-173
ParseReturn ==
    /\ pc = "landxml"
    /\ lines_done = Len(findall(coord_geom, "Line"))
    /\ curves_done = Len(findall(coord_geom, "Curve"))
    /\ unique_points' = Some(RemoveConsecutiveDuplicates(coord_points))
    /\ pc' = "landxml_returned"
    /\ UNCHANGED <<stdout, coord_geom, lines_done, curves_done, coord_points, vNotLandXml>>

NextLandXml == ParseLine \/ ParseCurve \/ ParseReturn

SpecLandXml == InitLandXml /\ [][NextLandXml]_vars

\* the points an element stands for, with (easting, northing) written out
Easting(text) == text[2]
Northing(text) == text[1]

SwappedPointsOf(el) ==
    IF el.tag = "Curve" /\ CurveIsComplete(el)
    THEN Range(interpolate_arc(<<Easting(el.Start[1]), Northing(el.Start[1])>>,
                               <<Easting(el.Center[1]), Northing(el.Center[1])>>,
                               el.radius[1], el.delta[1], el.rot, ArcPoints))
    ELSE {<<Easting(c[1]), Northing(c[1])>> : c \in {el.Start, el.End} \ {None}}

\* C13: every Start, End and Center text "<northing> <easting>" is used as
\* the point (easting, northing): the Start and End of a Line and of an
\* incomplete Curve are returned as (easting, northing), and the points
\* returned for a complete Curve are those of the arc about the center
\* (easting, northing) that begins in the direction of the start
\* (easting, northing).
C13_AxisOrderSwapped ==
    pc = "landxml_returned" =>
        \A k \in 1..Len(coord_geom) :
            SwappedPointsOf(coord_geom[k]) \subseteq Range(unique_points[1])

C13_Witness ==
    /\ pc = "landxml_returned"
    /\ Len(coord_geom) = 3
    /\ coord_geom[1].tag = "Line"
    /\ coord_geom[2].tag = "Curve" /\ CurveIsComplete(coord_geom[2])
    /\ coord_geom[3].tag = "Curve" /\ ~CurveIsComplete(coord_geom[3])
    /\ <<100, 2000>> \in Range(unique_points[1])
    /\ <<3500, 6000>> \in Range(unique_points[1])

\* what each element contributes, whichever its tag
ElementPoints(el) == IF el.tag = "Line" THEN StartAndEnd(el) ELSE CurvePoints(el)

InDocumentOrder(geom) ==
    LET cat[k \in 0..Len(geom)] ==
            IF k = 0 THEN <<>> ELSE cat[k - 1] \o ElementPoints(geom[k])
    IN  cat[Len(geom)]

\* C14: the returned points follow the document order of the Line and Curve
\* children of CoordGeom: they are the points of the first child, then
\* those of the second, and so on (consecutive duplicates removed).
C14_DocumentOrder ==
    pc = "landxml_returned" =>
        unique_points[1] = RemoveConsecutiveDuplicates(InDocumentOrder(coord_geom))

(***************************************************************************)
(* The distance helpers: test_ifc_offset.py, calculate_distance and        *)
(* calculate_horizontal_distance (lines 111-122), and                      *)
(* analyze_coordinate_problem.py, calculate_distance_2d (lines 12-14).     *)
(* Coordinates are whole units; a distance is in thousandths of the unit.  *)
(***************************************************************************)
calculate_distance(p1, p2) ==
    LET dx == p2.easting - p1.easting
        dy == p2.northing - p1.northing
        dz == p2.elevation - p1.elevation
    IN  math_sqrt(dx * dx + dy * dy + dz * dz)

calculate_horizontal_distance_WithElevation(p1, p2) == calculate_distance(p1, p2)
calculate_horizontal_distance(p1, p2) ==
    LET dx == p2.easting - p1.easting
        dy == p2.northing - p1.northing
    IN  math_sqrt(dx * dx + dy * dy)

DistancePoints ==
    [easting : {0, 3, 12}, northing : {0, 4, 5}, elevation : {0, 2, 7}]

InitDist ==
    /\ pc = "distance"
    /\ stdout = <<>>
    /\ point1 \in DistancePoints
    /\ point2 \in DistancePoints
    /\ distance_3d = None
    /\ distance_horizontal = None
    /\ distance_2d = None
    /\ IdleExcept("distance")

AtSeaLevel(p) == [p EXCEPT !.elevation = 0]

\* test_ifc_offset.py line 189
Distance3D ==
    /\ pc = "distance"
    /\ distance_3d' = Some([pq |-> calculate_distance(point1, point2),
                            qp |-> calculate_distance(point2, point1),
                            pp |-> calculate_distance(point1, point1)])
    /\ pc' = "distance_horizontal"
    /\ UNCHANGED <<stdout, point1, point2, distance_horizontal, distance_2d, vNotDist>>

\* test_ifc_offset.py line 190
DistanceHorizontal ==
    /\ pc = "distance_horizontal"
    /\ distance_horizontal' =
           Some([pq |-> calculate_horizontal_distance(point1, point2),
                 qp |-> calculate_horizontal_distance(point2, point1),
                 pp |-> calculate_horizontal_distance(point1, point1),
                 flat |-> calculate_horizontal_distance(AtSeaLevel(point1),
                                                        AtSeaLevel(point2))])
    /\ pc' = "distance_2d"
    /\ UNCHANGED <<stdout, point1, point2, distance_3d, distance_2d, vNotDist>>

\* analyze_coordinate_problem.py line 76
Distance2D ==
    /\ pc = "distance_2d"
    /\ distance_2d' =
           Some([pq |-> calculate_distance_2d(point1.easting, point1.northing,
                                              point2.easting, point2.northing),
                 qp |-> calculate_distance_2d(point2.easting, point2.northing,
                                              point1.easting, point1.northing),
                 pp |-> calculate_distance_2d(point1.easting, point1.northing,
                                              point1.easting, point1.northing)])
    /\ pc' = "distance_done"
    /\ UNCHANGED <<stdout, point1, point2, distance_3d, distance_horizontal, vNotDist>>

NextDist == Distance3D \/ DistanceHorizontal \/ Distance2D

SpecDist == InitDist /\ [][NextDist]_vars

SameHorizontally(p, q) == p.easting = q.easting /\ p.northing = q.northing

\* C16: each distance helper gives 0 for a point and itself and the same
\* value for (P, Q) as for (Q, P); the horizontal helpers do not depend on
\* the elevations; the 3D helper does: it is the elevation difference when P
\* and Q differ in elevation only, and exceeds the horizontal distance
\* whenever the elevations differ.
C16_DistanceHelpers ==
    pc = "distance_done" =>
        /\ \A d \in {distance_3d[1], distance_horizontal[1], distance_2d[1]} :
              d.pp = 0 /\ d.pq = d.qp
        /\ distance_horizontal[1].pq = distance_horizontal[1].flat
        /\ distance_2d[1].pq = distance_horizontal[1].flat
        /\ distance_3d[1].pq >= distance_horizontal[1].pq
        /\ point1.elevation # point2.elevation =>
              distance_3d[1].pq > distance_horizontal[1].pq
        /\ SameHorizontally(point1, point2) =>
              distance_3d[1].pq = 1000 * Abs(point2.elevation - point1.elevation)

C16_Witness ==
    /\ pc = "distance_done"
    /\ point1 = [easting |-> 0, northing |-> 0, elevation |-> 7]
    /\ point2 = [easting |-> 3, northing |-> 4, elevation |-> 0]
    /\ distance_horizontal[1].pq = 5000
    /\ distance_3d[1].qp > 8000

(***************************************************************************)
(* Unit conversions.  A length or a factor is an exact fraction            *)
(* <<numerator, denominator>> in lowest terms, so that two conversions     *)
(* agree exactly when the products of their factors are the same number;   *)
(* the scripts' floats carry the same products to 1 part in 10^16.         *)
(***************************************************************************)
MaxLength == 40

RECURSIVE GCD(_, _)
GCD(a, b) == IF b = 0 THEN a ELSE GCD(b, a % b)

Fraction(n, d) == LET g == GCD(n, d) IN <<n \div g, d \div g>>

\* p * q, cancelling before multiplying
Times(p, q) ==
    LET g1 == GCD(p[1], q[2])
        g2 == GCD(q[1], p[2])
    IN  Fraction((p[1] \div g1) * (q[1] \div g2), (p[2] \div g2) * (q[2] \div g1))

Over(p, q) == Times(p, <<q[2], q[1]>>)

\* analyze_coordinate_problem.py lines 19, 24: 1200/3937; test_ifc_offset.py
\* line 57 and ifc_scale_investigation.py lines 198-199 write the same
\* double as a literal (0.3048006096012192, 12 * 0.025400050800101603).
US_SURVEY_FOOT_TO_METER == <<1200, 3937>>

\* ifc_scale_investigation.py line 200: 0.3048
international_ft_to_m == <<381, 1250>>

\* verify_kml_distance.py line 29, verify_coordinate_transformation.py
\* line 72: 3.28084 feet per metre
FeetPerMeter == <<82021, 25000>>

\* test_coordinate_fixes.py line 54: 0.3048006096
TruncatedFootToMeter == <<190500381, 625000000>>

\* analyze_coordinate_problem.py lines 21-24, test_ifc_offset.py lines 128-130
feet_to_meters(ft) == Times(ft, US_SURVEY_FOOT_TO_METER)

\* analyze_coordinate_problem.py lines 16-19, test_ifc_offset.py lines 124-126
MetersToFeet_International(meters) == Times(meters, FeetPerMeter)
MetersToFeet(meters) == Over(meters, US_SURVEY_FOOT_TO_METER)

UnitLengths == { Fraction(n, d) : n \in 1..MaxLength, d \in {1, 100} }
UnitPoints == { <<6829001, 2187051>>, <<3937, 7874>>, <<1000, 2000>> }

InitUnits ==
    /\ pc = "units"
    /\ stdout = <<>>
    /\ length_ft \in UnitLengths
    /\ length_m = None
    /\ length_back = None
    /\ distance_ft = None
    /\ distance_us_ft = None
    /\ direct_ft = None
    /\ conversions = {}
    /\ point_ft \in UnitPoints
    /\ point_m = None
    /\ point_back = None
    /\ IdleExcept("units")

Conversion(script, line, unit, meters_per_foot) ==
    [script |-> script, line |-> line, unit |-> unit,
     meters_per_foot |-> meters_per_foot]

\* feet_to_meters(feet)
FeetToMeters ==
    /\ pc = "units"
    /\ length_m' = Some(feet_to_meters(length_ft))
    /\ conversions' = conversions \cup
           {Conversion("analyze_coordinate_problem", 24, "US survey feet",
                       US_SURVEY_FOOT_TO_METER)}
    /\ pc' = "units_back"
    /\ UNCHANGED <<stdout, length_ft, length_back, distance_ft, distance_us_ft,
                   direct_ft, point_ft, point_m, point_back, vNotUnits>>

\* meters_to_feet(meters)
MetersToFeetCall ==
    /\ pc = "units_back"
    /\ length_back' = Some(MetersToFeet(length_m[1]))
    /\ conversions' = conversions \cup
           {Conversion("analyze_coordinate_problem", 19, "US survey feet",
                       US_SURVEY_FOOT_TO_METER)}
    /\ pc' = "units_kml"
    /\ UNCHANGED <<stdout, length_ft, length_m, distance_ft, distance_us_ft,
                   direct_ft, point_ft, point_m, point_back, vNotUnits>>

\* verify_kml_distance.py lines 29-30
VerifyKmlDistance ==
    /\ pc = "units_kml"
    /\ distance_ft' = Some(Times(length_m[1], FeetPerMeter))
    /\ distance_us_ft' = Some(Over(length_m[1], <<1200, 3937>>))
    /\ conversions' = conversions \cup
           {Conversion("verify_kml_distance", 29, "international feet",
                       Over(<<1, 1>>, FeetPerMeter)),
            Conversion("verify_kml_distance", 30, "US survey feet", <<1200, 3937>>)}
    /\ pc' = "units_ratio"
    /\ UNCHANGED <<stdout, length_ft, length_m, length_back, direct_ft,
                   point_ft, point_m, point_back, vNotUnits>>

\* ifc_scale_investigation.py lines 198-207: the US survey foot in
\* international feet, us_survey_ft_to_m / international_ft_to_m
ScaleRatio ==
    /\ pc = "units_ratio"
    /\ direct_ft' = Some(Times(length_ft,
                               Over(US_SURVEY_FOOT_TO_METER, international_ft_to_m)))
    /\ conversions' = conversions \cup
           {Conversion("ifc_scale_investigation", 199, "US survey feet",
                       US_SURVEY_FOOT_TO_METER),
            Conversion("ifc_scale_investigation", 200, "international feet",
                       international_ft_to_m)}
    /\ pc' = "units_verify"
    /\ UNCHANGED <<stdout, length_ft, length_m, length_back, distance_ft,
                   distance_us_ft, point_ft, point_m, point_back, vNotUnits>>

\* verify_coordinate_transformation.py line 72, whose result lines 123-130
\* compare with the distance taken in EPSG:2871 (US survey feet)
VerifyTransformationDistance ==
    /\ pc = "units_verify"
    /\ conversions' = conversions \cup
           {Conversion("verify_coordinate_transformation", 72, "US survey feet",
                       Over(<<1, 1>>, FeetPerMeter))}
    /\ pc' = "units_fixes"
    /\ UNCHANGED <<stdout, length_ft, length_m, length_back, distance_ft,
                   distance_us_ft, direct_ft, point_ft, point_m, point_back,
                   vNotUnits>>

\* test_coordinate_fixes.py lines 53-55
TestCoordinateFixesElevation ==
    /\ pc = "units_fixes"
    /\ conversions' = conversions \cup
           {Conversion("test_coordinate_fixes", 54, "US survey feet",
                       TruncatedFootToMeter)}
    /\ pc' = "units_project"
    /\ UNCHANGED <<stdout, length_ft, length_m, length_back, distance_ft,
                   distance_us_ft, direct_ft, point_ft, point_m, point_back,
                   vNotUnits>>

\* final_analysis.py lines 36-37: EPSG:2871 to EPSG:2767
ProjectToMeters ==
    /\ pc = "units_project"
    /\ point_m' = Some(Transform("EPSG:2871", "EPSG:2767", point_ft[1], point_ft[2]))
    /\ pc' = "units_unproject"
    /\ UNCHANGED <<stdout, length_ft, length_m, length_back, distance_ft,
                   distance_us_ft, direct_ft, conversions, point_ft, point_back,
                   vNotUnits>>

\* verify_coordinate_transformation.py lines 99-100: EPSG:2767 to EPSG:2871
ProjectToFeet ==
    /\ pc = "units_unproject"
    /\ point_back' = Some(Transform("EPSG:2767", "EPSG:2871", point_m[1][1], point_m[1][2]))
    /\ pc' = "units_done"
    /\ UNCHANGED <<stdout, length_ft, length_m, length_back, distance_ft,
                   distance_us_ft, direct_ft, conversions, point_ft, point_m,
                   vNotUnits>>

NextUnits ==
    \/ FeetToMeters
    \/ MetersToFeetCall
    \/ VerifyKmlDistance
    \/ ScaleRatio
    \/ VerifyTransformationDistance
    \/ TestCoordinateFixesElevation
    \/ ProjectToMeters
    \/ ProjectToFeet

SpecUnits == InitUnits /\ [][NextUnits]_vars

RoundTripOfLength == length_back = Some(length_ft)

\* the projected coordinates are whole units, so a coordinate comes back to
\* within the four feet that one metre of truncation is worth
RoundTripOfPoint ==
    \A k \in 1..2 : Abs(point_back[1][k] - point_ft[k]) <= 4

ThroughMetersAgreesWithDirect == distance_ft = direct_ft

\* C17: a length in US survey feet taken to metres and back is the length
\* itself; taken to metres and from there to international feet it is the
\* value of the direct conversion; and a point of EPSG:2871 taken to
\* EPSG:2767 and back is the point itself.
C17_UnitsRoundTripAndCompose ==
    pc = "units_done" =>
        /\ RoundTripOfLength
        /\ ThroughMetersAgreesWithDirect
        /\ RoundTripOfPoint

UsesExactFactor(c) ==
    /\ c.unit = "US survey feet" => c.meters_per_foot = <<1200, 3937>>
    /\ c.unit = "international feet" => c.meters_per_foot = <<381, 1250>>

\* C18: every conversion of a length named or compared as US survey feet
\* uses 1200/3937 metres per foot, and every conversion named international
\* feet uses 0.3048 metres per foot.
C18_ExactFactors ==
    \A c \in conversions : UsesExactFactor(c)

(***************************************************************************)
(* The distance between CM 10.99 and a wall station, taken in EPSG:2871    *)
(* (verify_kml_distance.py lines 112-129) and in EPSG:2767                 *)
(* (visualize_distances.py lines 14-23).  Coordinates and distances are    *)
(* hundredths of the unit of their system.                                 *)
(***************************************************************************)
CM_10_99 == <<682900134, 218705101>>
RW_Sta_0_032_67 == <<208147133, 66661368>>
RW_Sta_0_035_11 == <<208147189, 66661608>>

KmlControlPoints ==
    { <<CM_10_99[1] + de, CM_10_99[2] + dn>> :
        <<de, dn>> \in {<<0, 0>>, <<1000, 0>>, <<0, 1000>>, <<-2500, -2500>>, <<5000, 2500>>} }

KmlStartPoints ==
    { RW_Sta_0_032_67, RW_Sta_0_035_11 } \cup
    { <<RW_Sta_0_032_67[1] + de, RW_Sta_0_032_67[2] + dn>> :
        <<de, dn>> \in {<<300, 0>>, <<0, -300>>, <<600, 600>>} }

InitKmlDist ==
    /\ pc = "kml_distance"
    /\ stdout = <<>>
    /\ cm_point_ft \in KmlControlPoints
    /\ rw_point_m \in KmlStartPoints
    /\ rw_point_ft = None
    /\ current_dist = None
    /\ cm_point_m = None
    /\ distance_m = None
    /\ distance_m_ft = None
    /\ IdleExcept("kml_distance")

\* math.sqrt((x1 - x2)**2 + (y1 - y2)**2) of two points in hundredths, in
\* hundredths
Separation(p, q) ==
    math_sqrt((p[1] - q[1]) * (p[1] - q[1]) + (p[2] - q[2]) * (p[2] - q[2])) \div 1000

\* verify_kml_distance.py lines 112-113
RwToFeet_ByInternationalFoot(p) == <<(p[1] \div 381) * 1250 + ((p[1] % 381) * 1250) \div 381,
                                     (p[2] \div 381) * 1250 + ((p[2] % 381) * 1250) \div 381>>
RwToFeet(p) == Transform("EPSG:2767", "EPSG:2871", p[1], p[2])

KmlTransformRw ==
    /\ pc = "kml_distance"
    /\ rw_point_ft' = Some(RwToFeet(rw_point_m))
    /\ pc' = "kml_current_dist"
    /\ UNCHANGED <<stdout, cm_point_ft, rw_point_m, current_dist, cm_point_m,
                   distance_m, distance_m_ft, vNotKmlDist>>

\* verify_kml_distance.py lines 128-129
KmlCurrentDist ==
    /\ pc = "kml_current_dist"
    /\ current_dist' = Some(Separation(cm_point_ft, rw_point_ft[1]))
    /\ stdout' = Append(stdout, "Current distance")
    /\ pc' = "visualize"
    /\ UNCHANGED <<cm_point_ft, rw_point_m, rw_point_ft, cm_point_m,
                   distance_m, distance_m_ft, vNotKmlDist>>

\* visualize_distances.py lines 15-16
VisualizeTransformCm ==
    /\ pc = "visualize"
    /\ cm_point_m' = Some(Transform("EPSG:2871", "EPSG:2767", cm_point_ft[1], cm_point_ft[2]))
    /\ pc' = "visualize_distance"
    /\ UNCHANGED <<stdout, cm_point_ft, rw_point_m, rw_point_ft, current_dist,
                   distance_m, distance_m_ft, vNotKmlDist>>

\* visualize_distances.py lines 20-23
VisualizeDistance ==
    /\ pc = "visualize_distance"
    /\ LET distance == Separation(cm_point_m[1], rw_point_m)
       IN  /\ distance_m' = Some(distance)
           /\ distance_m_ft' = Some((distance * 328084) \div 100000)
    /\ pc' = "kml_distance_done"
    /\ UNCHANGED <<stdout, cm_point_ft, rw_point_m, rw_point_ft, current_dist,
                   cm_point_m, vNotKmlDist>>

NextKmlDist ==
    \/ KmlTransformRw
    \/ KmlCurrentDist
    \/ VisualizeTransformCm
    \/ VisualizeDistance

SpecKmlDist == InitKmlDist /\ [][NextKmlDist]_vars

\* both distances are within half a foot of ft (hundredths of a foot)
DistancesNear(ft) ==
    /\ Abs(current_dist[1] - ft) <= 50
    /\ Abs(distance_m_ft[1] - ft) <= 50

\* the claim as it stands: for CM 10.99 and the point (2081471.33,
\* 666613.68) the distance is within 0.5 ft of 39.3 ft
C19_Within39_3 ==
    (pc = "kml_distance_done" /\ cm_point_ft = CM_10_99
        /\ rw_point_m = RW_Sta_0_032_67) => DistancesNear(3930)

\* C19: for CM 10.99 (6829001.34, 2187051.01) in EPSG:2871 and the point
\* (2081471.33, 666613.68) in EPSG:2767, the distance taken in either common
\* system is within 0.5 ft of 40.9 ft; it is within 0.5 ft of 39.3 ft for the
\* point (2081471.89, 666616.08) of RW Sta 0+035.11; neither is near 83 ft.
C19_Distances ==
    (pc = "kml_distance_done" /\ cm_point_ft = CM_10_99) =>
        /\ rw_point_m = RW_Sta_0_032_67 => DistancesNear(4090)
        /\ rw_point_m = RW_Sta_0_035_11 => DistancesNear(3930)
        /\ rw_point_m \in {RW_Sta_0_032_67, RW_Sta_0_035_11} =>
              current_dist[1] < 8250 /\ distance_m_ft[1] < 8250

C19_Witness ==
    /\ pc = "kml_distance_done"
    /\ cm_point_ft = CM_10_99
    /\ rw_point_m = RW_Sta_0_032_67
    /\ current_dist = Some(4090)

(***************************************************************************)
(* Further claims about create_kml and calculate_cumulative_distances of   *)
(* convert_dxf_to_kml.py.                                                  *)
(***************************************************************************)
\* C22: with a station range supplied and one or more points, create_kml
\* does not fail, whatever the total measured distance (a single point and
\* coincident points included), and the station of point 0 is start_station.
C22_StationAssignmentCompletes ==
    (StationRangeGiven /\ points # <<>>) =>
        /\ pc # "crashed"
        /\ placemarks # <<>> => placemarks[1].station_ft = start_station[1]

Flattened(pts) == [k \in 1..Len(pts) |-> <<pts[k][1], pts[k][2], 0, "">>]

\* C23: calculate_cumulative_distances gives [] for no points; otherwise
\* its result is as long as the input, begins with 0, never decreases, and
\* grows from point k-1 to point k by their 2D distance; it is the same for
\* the points with every z set to 0 and every layer blanked.
C23_CumulativeDistances ==
    /\ calculate_cumulative_distances(<<>>) = <<>>
    /\ cumulative_distances # None =>
          LET d == cumulative_distances[1]
          IN  /\ Len(d) = Len(points)
              /\ d[1] = 0
              /\ \A k \in 2..Len(d) :
                    /\ d[k] >= d[k - 1]
                    /\ d[k] - d[k - 1] =
                          calculate_distance_2d(points[k - 1][1], points[k - 1][2],
                                                points[k][1], points[k][2])
              /\ d = calculate_cumulative_distances(Flattened(points))

C23_Witness ==
    /\ cumulative_distances # None
    /\ Len(points) = 3
    /\ points[2][3] # points[1][3]
    /\ points[2][4] # points[1][4]
    /\ cumulative_distances[1][2] > 0
    /\ cumulative_distances[1][3] > cumulative_distances[1][2]

(***************************************************************************)
(* Further claims about parse_landxml_alignment and interpolate_arc.       *)
(***************************************************************************)
\* the positions of coord_points that begin a run of equal points
RunStarts == { k \in 1..Len(coord_points) : k = 1 \/ coord_points[k] # coord_points[k - 1] }

\* C24: the returned list has no two equal points next to each other; it
\* holds, in their order, one point for every run of equal adjacent points
\* of coord_points, so equal points that are not adjacent are all kept.
C24_NoAdjacentDuplicates ==
    pc = "landxml_returned" =>
        LET u == unique_points[1]
        IN  /\ \A k \in 2..Len(u) : u[k] # u[k - 1]
            /\ Len(u) = Cardinality(RunStarts)
            /\ \A k \in RunStarts :
                  u[Cardinality({m \in RunStarts : m <= k})] = coord_points[k]

C24_Witness ==
    /\ pc = "landxml_returned"
    /\ Len(unique_points[1]) < Len(coord_points)
    /\ \E j, k \in 1..Len(unique_points[1]) :
          k > j + 1 /\ unique_points[1][j] = unique_points[1][k]

Near(p, q) == Abs(p[1] - q[1]) <= 1 /\ Abs(p[2] - q[2]) <= 1

\* a complete Curve whose Start and End lie at its radius from its Center,
\* the End the sweep delta after the Start in the direction of rot
GeometricallyConsistent(curve) ==
    LET c == <<Easting(curve.Center[1]), Northing(curve.Center[1])>>
        s == <<Easting(curve.Start[1]), Northing(curve.Start[1])>>
        e == <<Easting(curve.End[1]), Northing(curve.End[1])>>
        r == curve.radius[1]
        turn == IF curve.rot = Some("cw") THEN -curve.delta[1] ELSE curve.delta[1]
    IN  /\ \A p \in {s, e} :
              /\ (r - 1) * (r - 1) <= DistanceSquared(p, c)
              /\ DistanceSquared(p, c) <= (r + 1) * (r + 1)
        /\ (math_atan2(e[2] - c[2], e[1] - c[1])
              - math_atan2(s[2] - c[2], s[1] - c[1]) - turn) % 360 = 0

MaxProducts == 2

IfcProduct(name, placement, representation, shape) ==
    [Name |-> name, is_a |-> "IfcWall", ObjectPlacement |-> placement,
     Representation |-> representation, shape |-> shape]

Shape(verts, edges, faces) == Some([verts |-> verts, edges |-> edges, faces |-> faces])

Products ==
    { \* vertices alone
      IfcProduct("Pole", Some(<<40, 31, 2>>), Some("Body"),
                 Shape(<<40, 31, 2,  44, 38, 3>>, <<>>, <<>>)),
      \* a mesh: an edge, an edge with an index past the vertices, an odd
      \* index left over; an open triangle, a triangle whose first and last
      \* vertex differ in elevation only, a triangle with an index past the
      \* vertices, an index left over
      IfcProduct("", Some(<<40, 31, 0>>), Some("Body"),
                 Shape(<<40, 31, 0,  44, 38, 3,  47, 31, 4,  40, 31, 5>>,
                       <<0, 1,  1, 7,  2>>,
                       <<0, 1, 2,  0, 1, 3,  2, 9, 1,  0>>)),
      \* create_shape raises
      IfcProduct("Slab", Some(<<44, 38, 6>>), Some("Body"), None),
      IfcProduct("Grid", Some(<<44, 38>>), Some("Body"), None),
      \* no representation
      IfcProduct("Axis", Some(<<47, 31, 1>>), None, None) }

\* A file whose property sets all belong to the retaining-wall elements.
ConvertPropertySets ==
    { ps \in PropertySets :
        /\ ps.start_point \in { <<Some(44), Some(38), Some(2)>>, <<Some(40), None, Some(0)>> }
        /\ ps.related # <<>> }

InitConvertIfc ==
    /\ pc = "extract_geometry_from_ifc"
    /\ stdout = <<>>
    /\ property_sets \in SeqsUpTo(ConvertPropertySets, MaxPsets)
    /\ psets_done = 0
    /\ ifc_points = <<>>
    /\ products_examined = FALSE
    /\ geometry_data = None
    /\ ifc_products \in SeqsUpTo(Products, MaxProducts)
    /\ products_done = 0
    /\ ifc_lines = <<>>
    /\ ifc_polygons = <<>>
    /\ ifc_placemarks = <<>>
    /\ ifc_kml_file = None
    /\ IdleExcept("extract")

\* range(0, n, step)
EveryNth(n, step) == [k \in 1..((n + step - 1) \div step) |-> (k - 1) * step]

\* Line 162: the vertices grouped into triplets.
Vertices(verts) ==
    [k \in 1..(Len(verts) \div 3) |-> <<verts[3 * k - 2], verts[3 * k - 1], verts[3 * k]>>]

\* Lines 174, 188, 197, 215: product.Name or product.is_a()
ProductName(product) == IF product.Name # "" THEN product.Name ELSE product.is_a

\* Lines 165-177: one line for each complete pair of edge indices that both
\* name a vertex (the indices count from 0).
ProductLines(product) ==
    LET vertices == Vertices(product.shape[1].verts)
        edges == product.shape[1].edges
        Complete(j) == /\ j + 1 < Len(edges)
                       /\ edges[j + 1] < Len(vertices)
                       /\ edges[j + 2] < Len(vertices)
        kept == SelectSeq(EveryNth(Len(edges), 2), Complete)
    IN  [k \in 1..Len(kept) |->
            [name |-> ProductName(product), type |-> product.is_a,
             points |-> <<vertices[edges[kept[k] + 1] + 1],
                          vertices[edges[kept[k] + 2] + 1]>>]]

\* Lines 180-191: one triangle for each complete triple of face indices that
\* all name a vertex.
ProductPolygons(product) ==
    LET vertices == Vertices(product.shape[1].verts)
        faces == product.shape[1].faces
        Complete(j) == /\ j + 2 < Len(faces)
                       /\ \A d \in 1..3 : faces[j + d] < Len(vertices)
        kept == IF Len(faces) >= 3 THEN SelectSeq(EveryNth(Len(faces), 3), Complete)
                ELSE <<>>
    IN  [k \in 1..Len(kept) |->
            [name |-> ProductName(product), type |-> product.is_a,
             points |-> [d \in 1..3 |-> vertices[faces[kept[k] + d] + 1]]]]

\* Lines 194-200: vertices with neither edges nor faces are points; these
\* have no 'station' and no 'properties'.
ProductPoints(product) ==
    LET vertices == Vertices(product.shape[1].verts)
    IN  IF product.shape[1].edges = <<>> /\ product.shape[1].faces = <<>>
        THEN [k \in 1..Len(vertices) |->
                 [name |-> ProductName(product), type |-> product.is_a,
                  coords |-> vertices[k]]]
        ELSE <<>>

\* Lines 202-220: when the geometry cannot be made, the Location of the
\* placement stands for the product if it has three coordinates.
PlacementPoint(product) ==
    LET coords == product.ObjectPlacement[1]
    IN  IF Len(coords) >= 3
        THEN <<[name |-> ProductName(product), type |-> product.is_a,
                coords |-> <<coords[1], coords[2], coords[3]>>]>>
        ELSE <<>>

\* Lines 152-162: create_shape raises, or the grouping of line 162 runs past
\* the end of verts.
ShapeFails(product) ==
    product.shape = None \/ Len(product.shape[1].verts) % 3 # 0

\* Lines 142-223, one product.
ExtractProduct ==
    /\ pc = "products_loop"
    /\ products_done < Len(ifc_products)
    /\ LET product == ifc_products[products_done + 1]
       IN  IF product.ObjectPlacement = None \/ product.Representation = None
           THEN UNCHANGED <<ifc_lines, ifc_polygons, ifc_points>>
           ELSE IF ShapeFails(product)
           THEN /\ ifc_points' = ifc_points \o PlacementPoint(product)
                /\ UNCHANGED <<ifc_lines, ifc_polygons>>
           ELSE /\ ifc_lines' = ifc_lines \o ProductLines(product)
                /\ ifc_polygons' = ifc_polygons \o ProductPolygons(product)
                /\ ifc_points' = ifc_points \o ProductPoints(product)
    /\ products_done' = products_done + 1
    /\ UNCHANGED <<pc, stdout, property_sets, psets_done, products_examined, geometry_data,
                   ifc_products, ifc_placemarks, ifc_kml_file, vNotIfcConversion>>

\* Lines 304, 366, 388: f'{lon},{lat},0' for a source point.
IfcCoordinate(point) ==
    LET t == ifc_transform_point(point[1], point[2], point[3])
    IN  <<t[1], t[2], 0>>

\* Lines 298, 333, 382: name or the folder's word and the 1-based index.
NameOr(name, word, idx) == IF name # "" THEN name ELSE word \o " " \o ToString(idx + 1)

\* Lines 297-319.
LinePlacemark(idx, line) ==
    [folder |-> "Lines", name |-> NameOr(line.name, "Line", idx),
     description |-> [type |-> line.type],
     geometry |-> "LineString", altitudeMode |-> "clampToGround",
     coordinates |-> [k \in 1..Len(line.points) |-> IfcCoordinate(line.points[k])]]

\* Lines 332-368; point.get('station', 'N/A').
PointPlacemark(idx, point) ==
    [folder |-> "Retaining Wall Points", name |-> NameOr(point.name, "Point", idx),
     description |-> [station |-> IF "station" \in DOMAIN point THEN point.station ELSE "N/A",
                      type |-> point.type,
                      easting |-> point.coords[1], northing |-> point.coords[2]],
     geometry |-> "Point", altitudeMode |-> "clampToGround",
     coordinates |-> <<IfcCoordinate(point.coords)>>]

\* the first coordinate appended whether the ring is closed or not
CloseRing_Always(coords) ==
    IF coords # <<>> THEN Append(coords, coords[1]) ELSE coords

\* Lines 390-392: the first coordinate is appended unless it is the last.
CloseRing(coords) ==
    IF coords # <<>> /\ coords[1] # coords[Len(coords)]
    THEN Append(coords, coords[1])
    ELSE coords

\* Lines 381-411.
PolygonPlacemark(idx, polygon) ==
    [folder |-> "Polygons", name |-> NameOr(polygon.name, "Polygon", idx),
     description |-> [type |-> polygon.type],
     geometry |-> "LinearRing", altitudeMode |-> "clampToGround",
     coordinates |->
         CloseRing([k \in 1..Len(polygon.points) |-> IfcCoordinate(polygon.points[k])])]

\* Lines 290-322: the Lines folder.
CreateKmlLines ==
    /\ pc = "extract_done"
    /\ LET lines == geometry_data[1].lines
       IN  ifc_placemarks' =
               ifc_placemarks \o [k \in 1..Len(lines) |-> LinePlacemark(k - 1, lines[k])]
    /\ pc' = "points_folder"
    /\ UNCHANGED <<stdout, vExtract, ifc_products, products_done, ifc_lines, ifc_polygons,
                   ifc_kml_file, vNotIfcConversion>>

\* Lines 325-371: the Retaining Wall Points folder.
CreateKmlPoints ==
    /\ pc = "points_folder"
    /\ LET pts == geometry_data[1].points
       IN  ifc_placemarks' =
               ifc_placemarks \o [k \in 1..Len(pts) |-> PointPlacemark(k - 1, pts[k])]
    /\ pc' = "polygons_folder"
    /\ UNCHANGED <<stdout, vExtract, ifc_products, products_done, ifc_lines, ifc_polygons,
                   ifc_kml_file, vNotIfcConversion>>

\* Lines 374-414: the Polygons folder.
CreateKmlPolygons ==
    /\ pc = "polygons_folder"
    /\ LET polygons == geometry_data[1].polygons
       IN  ifc_placemarks' =
               ifc_placemarks \o
                   [k \in 1..Len(polygons) |-> PolygonPlacemark(k - 1, polygons[k])]
    /\ pc' = "write_file"
    /\ UNCHANGED <<stdout, vExtract, ifc_products, products_done, ifc_lines, ifc_polygons,
                   ifc_kml_file, vNotIfcConversion>>

\* Lines 420-427 and 450.
CreateKmlFromGeometryWrite ==
    /\ pc = "write_file"
    /\ ifc_kml_file' = Some(ifc_placemarks)
    /\ stdout' = stdout \o <<"Created KML file">>
    /\ pc' = "converted"
    /\ UNCHANGED <<vExtract, ifc_products, products_done, ifc_lines, ifc_polygons,
                   ifc_placemarks, vNotIfcConversion>>

NextConvertIfc ==
    \/ ExtractStartPoint
    \/ ExtractReturn
    \/ ExtractProduct
    \/ ExtractProductsReturn
    \/ CreateKmlLines
    \/ CreateKmlPoints
    \/ CreateKmlPolygons
    \/ CreateKmlFromGeometryWrite

SpecConvertIfc == InitConvertIfc /\ [][NextConvertIfc]_vars

(***************************************************************************)
(* Properties of the IFC conversion.                                       *)
(***************************************************************************)
\* The elements whose Start Point gave a point, in the order of the
\* property sets: those of the sets whose text holds three numbers or more.
RECURSIVE ElementsWithStartPoint(_)
ElementsWithStartPoint(psets) ==
    IF psets = <<>> THEN <<>>
    ELSE (IF AllNumbers(Head(psets).start_point) /\ Len(Head(psets).start_point) >= 3
          THEN Head(psets).related ELSE <<>>)
         \o ElementsWithStartPoint(Tail(psets))

NamedByPriority(point, obj) ==
    /\ obj.Station # "" => point.name = "RW Sta " \o obj.Station
    /\ obj.Station = "" /\ obj.FeatureName # "" => point.name = obj.FeatureName
    /\ obj.Station = "" /\ obj.FeatureName = "" /\ obj.Name # "" => point.name = obj.Name
    /\ obj.Station = "" /\ obj.FeatureName = "" /\ obj.Name = "" => point.name = obj.is_a

\* C26: each point taken from a Start Point property is named "RW Sta
\* <station>" when its element has a non-empty Station, else by the
\* element's Feature Name, else by the object's Name, else by its IFC type,
\* and its 'station' field is the Station property (empty when there is none).
C26_NamePriority ==
    ~products_examined =>
        LET elements == ElementsWithStartPoint(SubSeq(property_sets, 1, psets_done))
        IN  /\ Len(ifc_points) = Len(elements)
            /\ \A k \in 1..Len(elements) :
                   /\ NamedByPriority(ifc_points[k], elements[k])
                   /\ ifc_points[k].station = elements[k].Station

C26_Witness ==
    /\ pc = "converted"
    /\ Len(ifc_points) = 2
    /\ ifc_points[1].name = "RW1" /\ ifc_points[1].station = ""
    /\ ifc_points[2].name = "RW Sta 0+032.67" /\ ifc_points[2].station = "0+032.67"

\* C27: when a Start Point property gave at least one point, the function
\* returns those points alone, with no line and no polygon, and looks at no
\* product; the products are looked at only when no property gave a point.
C27_PropertyPointsPreempt ==
    LET elements == ElementsWithStartPoint(property_sets)
    IN  /\ products_examined => elements = <<>>
        /\ products_done > 0 => elements = <<>>
        /\ geometry_data # None /\ elements # <<>> =>
               /\ geometry_data[1].lines = <<>>
               /\ geometry_data[1].polygons = <<>>
               /\ Len(geometry_data[1].points) = Len(elements)
               /\ \A k \in 1..Len(elements) : "station" \in DOMAIN geometry_data[1].points[k]
               /\ ~products_examined
               /\ products_done = 0

C27_Witness ==
    /\ pc = "converted"
    /\ geometry_data[1].points # <<>>
    /\ ~products_examined
    /\ \E k \in 1..Len(ifc_products) :
           /\ ifc_products[k].shape # None
           /\ ProductLines(ifc_products[k]) # <<>>

\* C28: every LinearRing written is closed, its first coordinate equal to
\* its last, and a ring whose coordinates are closed already is written as
\* it is, with no point added.
C28_RingsClosed ==
    pc \in {"write_file", "converted"} =>
        LET g == geometry_data[1]
            before == Len(g.lines) + Len(g.points)
        IN  \A k \in 1..Len(g.polygons) :
                LET ring == ifc_placemarks[before + k].coordinates
                    source == [d \in 1..Len(g.polygons[k].points) |->
                                  IfcCoordinate(g.polygons[k].points[d])]
                IN  /\ ifc_placemarks[before + k].geometry = "LinearRing"
                    /\ ring[1] = ring[Len(ring)]
                    /\ IF source[1] = source[Len(source)]
                       THEN ring = source
                       ELSE ring = Append(source, source[1])

C28_Witness ==
    /\ pc = "converted"
    /\ \E p \in Range(ifc_kml_file[1]) : p.geometry = "LinearRing" /\ Len(p.coordinates) = 4
    /\ \E p \in Range(ifc_kml_file[1]) : p.geometry = "LinearRing" /\ Len(p.coordinates) = 3

(***************************************************************************)
(* convert_control_points_to_kml.py: convert_control_points_to_kml and     *)
(* create_kml.  The output file may exist before the run, with the         *)
(* content of an earlier conversion.                                       *)
(***************************************************************************)
PreviousFile == Some(<<"previous">>)

InitConvertCsv ==
    /\ pc = "read_control_points"
    /\ stdout = <<>>
    /\ csv_lines \in {<<>>} \cup { <<CsvHeader>> \o rows : rows \in SeqsUpTo(CsvRows, MaxRows) }
    /\ rows_read = 0
    /\ control_points = <<>>
    /\ csv_placemarks = <<>>
    /\ csv_kml_file \in {None, PreviousFile}
    /\ csv_returned = None
    /\ IdleExcept("csv")

\* convert_control_points_to_kml.transform_point with its defaults.
csv_transform_point(easting, northing) ==
    Transform("EPSG:2871", "EPSG:4326", easting, northing)

\* Lines 105-128.
ControlPointPlacemark(point) ==
    LET ll == csv_transform_point(point.easting, point.northing)
    IN  [name |-> point.name,
         description |-> [station |-> point.name, easting |-> point.easting,
                          northing |-> point.northing, elevation |-> point.elevation],
         geometry |-> "Point", altitudeMode |-> "clampToGround",
         coordinates |-> <<ll[1], ll[2], 0>>]

\* the file written whatever was read
NoControlPoints_Never(cps) == FALSE

\* Line 159: if not control_points:
NoControlPoints(cps) == cps = <<>>

\* Lines 156-161: nothing valid was read.
ConvertReturnNone ==
    /\ pc = "read_done"
    /\ NoControlPoints(control_points)
    /\ stdout' = stdout \o <<"Found " \o ToString(Len(control_points)) \o " control points",
                             "ERROR: No valid control points found in CSV file!">>
    /\ csv_returned' = Some(None)
    /\ pc' = "convert_returned"
    /\ UNCHANGED <<vCsv, csv_placemarks, csv_kml_file, vNotCsvConversion>>

\* Lines 156-159 and 83-132: kml_content with one Placemark for each point.
CsvCreateKml ==
    /\ pc = "read_done"
    /\ ~NoControlPoints(control_points)
    /\ stdout' = Append(stdout, "Found " \o ToString(Len(control_points)) \o " control points")
    /\ csv_placemarks' =
           [k \in 1..Len(control_points) |-> ControlPointPlacemark(control_points[k])]
    /\ pc' = "csv_write"
    /\ UNCHANGED <<vCsv, csv_kml_file, csv_returned, vNotCsvConversion>>

\* Lines 135-139 and 166.
CsvWrite ==
    /\ pc = "csv_write"
    /\ csv_kml_file' = Some(csv_placemarks)
    /\ stdout' = stdout \o <<"Created KML file",
                             "Control points: " \o ToString(Len(control_points))>>
    /\ csv_returned' = Some(Some("output_file"))
    /\ pc' = "convert_returned"
    /\ UNCHANGED <<vCsv, csv_placemarks, vNotCsvConversion>>

NextConvertCsv ==
    \/ ReadHeader
    \/ ReadRow
    \/ ReadReturn
    \/ ConvertReturnNone
    \/ CsvCreateKml
    \/ CsvWrite

SpecConvertCsv == InitConvertCsv /\ [][NextConvertCsv]_vars

\* The valid rows of the file, as control points, in row order.
ValidRows == IF csv_lines = <<>> THEN <<>> ELSE WellFormedRows(Tail(csv_lines))

ReturnedAsClaimed ==
    pc = "convert_returned" =>
        IF ValidRows = <<>>
        THEN /\ \E k \in 1..Len(stdout) :
                    stdout[k] = "ERROR: No valid control points found in CSV file!"
             /\ csv_returned = Some(None)
             /\ csv_kml_file \in {None, PreviousFile}
        ELSE /\ csv_returned # Some(None)
             /\ csv_kml_file # None
             /\ Len(csv_kml_file[1]) = Len(ValidRows)
             /\ \A k \in 1..Len(ValidRows) :
                    /\ csv_kml_file[1][k].name = ValidRows[k].name
                    /\ csv_kml_file[1][k].description.elevation = ValidRows[k].elevation
                    /\ csv_kml_file[1][k].coordinates
                           = ControlPointPlacemark(ValidRows[k]).coordinates

FileLeftAlone == ValidRows = <<>> => csv_kml_file' = csv_kml_file

\* C29: convert_control_points_to_kml writes the file exactly when a valid
\* control point was read.  With no valid row it prints the error, returns
\* None and never touches the output file; otherwise the file it leaves
\* holds one placemark for each valid row, in row order.
C29_FileWrittenIffValidRow == [](ReturnedAsClaimed) /\ [][FileLeftAlone]_vars

C29_Witness ==
    /\ pc = "convert_returned"
    /\ ValidRows = <<>>
    /\ Len(csv_lines) = 3
    /\ csv_kml_file = PreviousFile

(***************************************************************************)
(* convert_xml_to_kml.py: transform_coordinates and create_kml, after      *)
(* parse_landxml_alignment has returned.                                   *)
(***************************************************************************)
\* Lines 191-198.
TransformCoordinates ==
    /\ pc = "landxml_returned"
    /\ transformed_points' =
           Some([k \in 1..Len(unique_points[1]) |->
                    Transform("EPSG:2871", "EPSG:4326",
                              unique_points[1][k][1], unique_points[1][k][2])])
    /\ pc' = "landxml_transformed"
    /\ UNCHANGED <<stdout, vLandXml, xml_kml_file, vNotXmlConversion>>

\* Lines 214-253: one LineString with a coordinate for each point.
XmlCreateKml ==
    /\ pc = "landxml_transformed"
    /\ xml_kml_file' =
           Some([geometry |-> "LineString", altitudeMode |-> "clampToGround",
                 coordinates |-> [k \in 1..Len(transformed_points[1]) |->
                                     <<transformed_points[1][k][1],
                                       transformed_points[1][k][2], 0>>]])
    /\ stdout' = stdout \o <<"Created KML file">>
    /\ pc' = "landxml_written"
    /\ UNCHANGED <<vLandXml, transformed_points, vNotXmlConversion>>

(***************************************************************************)
(* The four converters side by side: one run of any of them.               *)
(***************************************************************************)
InitKml == InitStation \/ InitConvertIfc \/ InitConvertCsv \/ InitLandXml

NextKml ==
    \/ NextStation
    \/ NextConvertIfc
    \/ NextConvertCsv
    \/ NextLandXml
    \/ TransformCoordinates
    \/ XmlCreateKml

SpecKml == InitKml /\ [][NextKml]_vars

\* longitude, latitude, 0 for a point of the given system
OnTheGround(epsg, easting, northing) ==
    LET ll == Transform(epsg, "EPSG:4326", easting, northing)
    IN  <<ll[1], ll[2], 0>>

DxfCoordinates ==
    /\ \A k \in 1..Len(placemarks) :
           /\ placemarks[k].coordinates = OnTheGround("EPSG:2871", points[k][1], points[k][2])
           /\ placemarks[k].altitudeMode = "clampToGround"
           /\ placemarks[k].elev = points[k][3]
    /\ \A k \in 1..Len(polyline_placemarks) :
           /\ polyline_placemarks[k].altitudeMode = "clampToGround"
           /\ Len(polyline_placemarks[k].coordinates) = Len(polylines[k])
           /\ \A j \in 1..Len(polylines[k]) :
                  polyline_placemarks[k].coordinates[j]
                      = OnTheGround("EPSG:2871", polylines[k][j][1], polylines[k][j][2])

IfcCoordinates ==
    pc \in {"write_file", "converted"} =>
        LET g == geometry_data[1]
            features == [k \in 1..Len(g.lines) |-> g.lines[k].points]
                        \o [k \in 1..Len(g.points) |-> <<g.points[k].coords>>]
                        \o [k \in 1..Len(g.polygons) |-> g.polygons[k].points]
        IN  /\ Len(ifc_placemarks) = Len(features)
            /\ \A k \in 1..Len(features) :
                   /\ ifc_placemarks[k].altitudeMode = "clampToGround"
                   /\ Len(ifc_placemarks[k].coordinates) >= Len(features[k])
                   /\ \A c \in Range(ifc_placemarks[k].coordinates) :
                          \E v \in Range(features[k]) : c = OnTheGround("EPSG:2767", v[1], v[2])
                   /\ \A j \in 1..Len(features[k]) :
                          ifc_placemarks[k].coordinates[j]
                              = OnTheGround("EPSG:2767", features[k][j][1], features[k][j][2])

CsvCoordinates ==
    \A k \in 1..Len(csv_placemarks) :
        /\ csv_placemarks[k].coordinates
               = OnTheGround("EPSG:2871", control_points[k].easting, control_points[k].northing)
        /\ csv_placemarks[k].altitudeMode = "clampToGround"
        /\ csv_placemarks[k].description.elevation = control_points[k].elevation

XmlCoordinates ==
    xml_kml_file # None =>
        /\ xml_kml_file[1].altitudeMode = "clampToGround"
        /\ Len(xml_kml_file[1].coordinates) = Len(unique_points[1])
        /\ \A k \in 1..Len(unique_points[1]) :
               xml_kml_file[1].coordinates[k]
                   = OnTheGround("EPSG:2871", unique_points[1][k][1], unique_points[1][k][2])

RECURSIVE InNameOrder(_)
InNameOrder(S) ==
    IF S = {} THEN <<>>
    ELSE LET first == CHOOSE f \in S : \A g \in S : f <= g
         IN  <<first>> \o InNameOrder(S \ {first})

Lines(files, Line(_)) == [k \in 1..Len(files) |-> Line(files[k])]

IfcRunOf(S) ==
    LET files == InNameOrder({ f \in S : IsIfc(f) })
        Line(f) == IF ConversionRaises(f) THEN "ERROR processing " \o FileName[f]
                   ELSE "Created KML file: " \o FileName[f]
    IN  [kml |-> SelectSeq(files, LAMBDA f : ~ConversionRaises(f)),
         out |-> IF files = <<>> THEN <<"ERROR: No IFC files found!">>
                 ELSE <<"Found IFC file(s) to convert">> \o Lines(files, Line)
                          \o <<"Conversion complete!">>]

XmlRunOf(S) ==
    LET files == InNameOrder({ f \in S : IsXml(f) })
        Line(f) == IF XmlConversionRaises(f) THEN "ERROR processing " \o ToString(f)
                   ELSE "Created KML file: " \o ToString(f)
    IN  [kml |-> SelectSeq(files, LAMBDA f : ~XmlConversionRaises(f)),
         out |-> IF files = <<>> THEN <<"ERROR: No XML files found in DATA directory!">>
                 ELSE <<"Found XML file(s) to convert">> \o Lines(files, Line)
                          \o <<"Conversion complete!">>]

\* the DXF script stops at the first file whose conversion raises
DxfRunOf(S) ==
    LET files == InNameOrder(S)
        converted == SelectSeq(files, LAMBDA f : \A g \in S : DxfConversionRaises(g) => f < g)
        Line(f) == "Created KML file: " \o ToString(f)
    IN  [kml |-> converted,
         out |-> IF files = <<>> THEN <<"No DXF files found in DATA directory">>
                 ELSE <<"Found DXF files to convert">> \o Lines(converted, Line)
                          \o <<IF Len(converted) < Len(files)
                               THEN "Traceback (most recent call last)"
                               ELSE "All conversions complete!">>]

\* C21: a run of a converter over the DATA directory writes the same KML
\* files and prints the same summary and progress lines whatever the order
\* in which the directory listing (os.listdir, glob) returns the files: what
\* it leaves is settled by the set of files alone.
C21_OutputIndependentOfListingOrder ==
    /\ pc = "exited" /\ argv = <<>> /\ data_dir_exists =>
           LET run == IfcRunOf(Range(data_dir_listing))
           IN  kml_files = run.kml /\ written = Range(run.kml) /\ stdout = run.out
    /\ pc = "xml_exited" /\ xml_dir_exists =>
           LET run == XmlRunOf(Range(xml_dir_listing))
           IN  xml_kml_files = run.kml /\ xml_written = Range(run.kml) /\ stdout = run.out
    /\ pc = "dxf_exited" /\ dxf_argv = <<>> =>
           LET run == DxfRunOf(Range(dxf_glob))
           IN  dxf_written = Range(run.kml) /\ stdout = run.out

C21_Witness ==
    /\ pc = "exited"
    /\ data_dir_listing = <<4, 1>>
    /\ kml_files = <<1, 4>>

====
